---------------------------- MODULE Spec2Model ----------------------------
(***************************************************************************)
(* Model of the ingestion, chunking and indexing pipeline of               *)
(* conversation-search-v2: ChunkManager (pairing, topic groups, chunk      *)
(* emission), EmbeddingService.embedBatch (worker pool), ImportService /   *)
(* repositories (reconciliation of a parsed file against the store) and    *)
(* ChunkIndexer.indexAll (checkpointed indexing run).                      *)
(*                                                                         *)
(* Each component has its own specification over the shared variables:     *)
(*   SpecChunk  - ChunkManager.processSession on bounded message lists     *)
(*   SpecEmbed  - EmbeddingService.embedBatch, one step per await          *)
(*   SpecImport - the store: createStub, tagging, update, importFile       *)
(*   SpecIndex  - ChunkIndexer.indexAll with kill / restart                *)
(***************************************************************************)
EXTENDS Integers, Sequences, FiniteSets, TLC

VARIABLES
    \* ---- ChunkManager (SpecChunk)
    c_messages,     \* the ordered message list handed to processSession
    c_pairs,        \* the message pairs of step 1 of that call
    c_groups,       \* the topic groups of step 2 of that call
    c_chunks,       \* the chunk list processSession returned
    c_pc,           \* "input" while the list is built, "done" after the call,
                    \* "again" after a second call on the same list
    c_now,          \* the wall clock that new Date() reads
    c_second,       \* the chunk list the second call returned
    \* ---- EmbeddingService.embedBatch (SpecEmbed)
    e_texts,        \* the texts argument
    e_concurrency,  \* the concurrency argument
    e_pc,           \* "idle" before the call, "running", "returned"
    e_cursor,       \* the shared cursor: the number of queue entries claimed
    e_results,      \* the results array, EmptySlot where nothing was written
    e_workers,      \* per worker: awaiting embed for an index, or done
    e_claims,       \* (history) per index, how many times it was claimed
    e_writers,      \* (history) per slot, the workers that wrote it
    e_outcome,      \* (history) per index, how its embed call ended
    \* ---- the store and ImportService (SpecImport)
    db_sessions,    \* table sessions: session id -> row, or NoSession
    db_messages,    \* table messages: the rows in insertion order
    db_session_tags, \* table session_tags: pairs <<session id, tag>>
    db_projects,    \* table projects: the paths, a project's id is its position
    last,           \* (history) the importFile call that has just returned
    \* ---- ChunkIndexer.indexAll and the vector index (SpecIndex)
    ix_sessions,    \* what sessionRepo.findAll returns, each with its messages
    ix_index,       \* the vector index collection: the documents by id
    ix_checkpoint,  \* the checkpoint file: NoFile, a Checkpoint, or Corrupt
    ix_pc,          \* where the indexAll run is: "idle" (not running),
                    \* "batch", "embed", "upsert", "returned", "threw"
    ix_run,         \* the locals of the run: options, i, position, result
    ix_now,         \* the wall clock
    ix_kills,       \* (history) how many times the process was killed
    ix_ref,         \* (history) the index of a run that is never killed, kept
                    \* while no call has failed
    ix_completed,   \* (history) the sessions upserted in full or skipped
    ix_failed,      \* (history) a fetch, embed or upsert call has failed
    ix_hist,        \* (history) of the current run: the sessions attempted,
                    \* the calls that failed
    \* ---- JsonlParser.parseFile (SpecParse)
    p_lines,        \* the lines of the transcript file
    p_parse,        \* the parseFile call on the file: not made, or what it
                    \* returned
    \* ---- ImportService.importAll (SpecImportAll)
    ia_files,       \* the files found in the source directories, in order
    ia_skipExisting, \* options.skipExisting
    ia_pc,          \* "idle" before the call, "running", "returned"
    ia_i,           \* the loop index: the number of files gone through
    ia_result,      \* the ImportResult of the call
    ia_log,         \* (history) per file gone through, how importFile ended
    \* ---- ChunkManager.isTopicSimilar (SpecTopic)
    s_topic1,       \* the first argument
    s_topic2,       \* the second argument
    s_pc,           \* "input" before the call, "done" after it
    s_similar,      \* what isTopicSimilar returned
    \* ---- ChunkManager.truncateIfNeeded (SpecTruncate)
    t_text,         \* the text argument, a sequence of characters
    t_pc,           \* "input" while the text is built, "done" after the call
    t_result,       \* what truncateIfNeeded returned
    \* ---- ChunkManager.formatChunkContent over characters (SpecFormat)
    f_pair,         \* the pair argument: the user and the assistant text
    f_topic,        \* the topic argument
    f_pc,           \* "input" before the call, "chosen", "done" after it
    f_content,      \* what formatChunkContent returned
    \* ---- MigrationRunner.migrate (SpecMigrate)
    m_files,        \* the .sql files of the migrations directory
    m_table,        \* table schema_migrations: the versions, in insertion order
    m_effects,      \* (history) the versions whose SQL was executed and
                    \* committed, in order
    m_pc,           \* "idle" between the calls of migrate, "running"
    m_run,          \* the locals of the call: the list, currentVersion, the
                    \* loop position, the result
    m_calls         \* (history) the number of migrate calls made

chunkVars == <<c_messages, c_pairs, c_groups, c_chunks, c_pc, c_now, c_second>>

embedVars == <<e_texts, e_concurrency, e_pc, e_cursor, e_results, e_workers,
               e_claims, e_writers, e_outcome>>

storeVars == <<db_sessions, db_messages, db_session_tags, db_projects, last>>

indexVars == <<ix_sessions, ix_index, ix_checkpoint, ix_pc, ix_run, ix_now,
               ix_kills, ix_ref, ix_completed, ix_failed, ix_hist>>

parseVars == <<p_lines, p_parse>>

textVars == <<t_text, t_pc, t_result>>

importAllVars == <<ia_files, ia_skipExisting, ia_pc, ia_i, ia_result, ia_log>>

topicVars == <<s_topic1, s_topic2, s_pc, s_similar>>

formatVars == <<f_pair, f_topic, f_pc, f_content>>

migrateVars == <<m_files, m_table, m_effects, m_pc, m_run, m_calls>>

vars == <<chunkVars, embedVars, storeVars, indexVars, parseVars, textVars,
          importAllVars, topicVars, formatVars, migrateVars>>

(***************************************************************************)
(* Bounds of the model                                                     *)
(***************************************************************************)
MaxMessages == 3
MaxTexts == 3
MaxConcurrency == 3
MaxFileMessages == 2
MaxSessions == 2
MaxBatch == 2
MaxKills == 1
MaxClock == 1

\* the size of an upsert sub-batch: UPSERT_BATCH_SIZE (50) of upsertChunks,
\* scaled to the sessions of the model, whose longest has three chunks
UpsertBatchSize == 2

(***************************************************************************)
(* ChunkManager                                                            *)
(***************************************************************************)
\* Message.role (types/models.ts)
Roles == {"user", "assistant", "system", "unknown"}

\* Message contents are word sequences; the words of the keyword vocabulary
\* that the model uses, and one word outside it.
Keywords == {"react", "component", "git"}
Contents == {<<"hello">>, <<"react">>, <<"component", "git">>}

\* Timestamps are minutes; consecutive messages are 30 or 31 minutes apart.
Gaps == {30, 31}

\* the time gap in minutes above which a new topic group starts
TopicGapMinutes == 30

NoMessage == [uuid |-> 0, role |-> "none", content |-> <<>>, timestamp |-> 0]
NoChunkId == [conv |-> "", pair |-> 0]
chunkSession == [id |-> "s1", project_path |-> "/p"]

\* (mutant) the chunk id does not carry the sequence number
ChunkIdWithoutNumber(sid, n) == [conv |-> sid, pair |-> 0]

\* `conv_${session.id}_pair_${sequenceNumber}`
ChunkId(sid, n) == [conv |-> sid, pair |-> n]

RECURSIVE SelectSeqFrom(_, _, _)
SelectSeqFrom(s, i, keep) ==
    IF i > Len(s) THEN <<>>
    ELSE IF s[i] \in keep THEN <<s[i]>> \o SelectSeqFrom(s, i + 1, keep)
    ELSE SelectSeqFrom(s, i + 1, keep)

\* createMessagePairs: the loop from index i on
RECURSIVE PairsFrom(_, _)
PairsFrom(messages, i) ==
    IF i > Len(messages) THEN <<>>
    ELSE LET message == messages[i]
             hasNext == i + 1 <= Len(messages)
             assistantResponse ==
                 IF hasNext /\ messages[i + 1].role = "assistant"
                 THEN messages[i + 1] ELSE NoMessage
         IN  IF message.role = "user"
             THEN <<[userMessage |-> message,
                     assistantMessage |-> assistantResponse,
                     timestamp |-> IF assistantResponse # NoMessage
                                   THEN assistantResponse.timestamp
                                   ELSE message.timestamp]>>
                  \o PairsFrom(messages,
                               IF assistantResponse # NoMessage THEN i + 2 ELSE i + 1)
             ELSE IF message.role = "assistant"
             THEN <<[userMessage |-> NoMessage,
                     assistantMessage |-> message,
                     timestamp |-> message.timestamp]>>
                  \o PairsFrom(messages, i + 1)
             ELSE PairsFrom(messages, i + 1)

createMessagePairs(messages) == PairsFrom(messages, 1)

\* text.toLowerCase().match(keywords): the keyword occurrences, in order
pairText(pair) == pair.userMessage.content \o pair.assistantMessage.content

keywordMatches(text) == SelectSeqFrom(text, 1, Keywords)

countOf(ws, w) == Cardinality({k \in 1..Len(ws) : ws[k] = w})

\* the most frequent keyword; among equally frequent ones the first to occur
\* (Object.entries keeps insertion order and the sort is stable)
extractTopic(pair) ==
    LET keywords == keywordMatches(pairText(pair))
    IN  IF Len(keywords) > 0
        THEN LET best == CHOOSE k \in 1..Len(keywords) :
                     /\ \A j \in 1..Len(keywords) :
                            countOf(keywords, keywords[j]) <= countOf(keywords, keywords[k])
                     /\ \A j \in 1..(k - 1) :
                            countOf(keywords, keywords[j]) < countOf(keywords, keywords[k])
             IN  keywords[best]
        ELSE "general"

\* (mutant) a table in which git is in two groups
relatedTopicsOverlapping ==
    << {"react", "component", "typescript", "javascript", "git"},
       {"database", "sqlite", "sql", "query", "chromadb"},
       {"git", "commit", "branch", "repository"},
       {"server", "api", "endpoint", "http"},
       {"test", "testing", "jest", "spec"},
       {"deployment", "docker", "container", "build"},
       {"mcp", "claude", "hook", "skill", "command"},
       {"vector", "embedding", "search", "index"} >>

\* the fixed table of related topics
relatedTopics ==
    << {"react", "component", "typescript", "javascript"},
       {"database", "sqlite", "sql", "query", "chromadb"},
       {"git", "commit", "branch", "repository"},
       {"server", "api", "endpoint", "http"},
       {"test", "testing", "jest", "spec"},
       {"deployment", "docker", "container", "build"},
       {"mcp", "claude", "hook", "skill", "command"},
       {"vector", "embedding", "search", "index"} >>

isTopicSimilar(topic1, topic2) ==
    \/ topic1 = topic2
    \/ \E g \in 1..Len(relatedTopics) :
           topic1 \in relatedTopics[g] /\ topic2 \in relatedTopics[g]

\* Math.abs(time2 - time1) in minutes
getTimeGapMinutes(timestamp1, timestamp2) ==
    IF timestamp2 >= timestamp1 THEN timestamp2 - timestamp1
    ELSE timestamp1 - timestamp2

\* (mutant) only a change of topic starts a new group
isTopicBoundaryTopicOnly(timeGap, topicSimilar) == ~topicSimilar

\* (mutant) only a time gap starts a new group
isTopicBoundaryGapOnly(timeGap, topicSimilar) == timeGap > TopicGapMinutes

\* the topic boundary test: a time gap of more than 30 minutes, or a topic
\* that is not similar
isTopicBoundary(timeGap, topicSimilar) ==
    timeGap > TopicGapMinutes \/ ~topicSimilar

\* detectTopicGroups: the loop from pair i on, with the groups closed so far
\* and the current group
RECURSIVE GroupsFrom(_, _, _, _)
GroupsFrom(pairs, i, groups, currentGroup) ==
    IF i > Len(pairs) THEN Append(groups, currentGroup)
    ELSE LET pair == pairs[i]
             pairTopic == extractTopic(pair)
             timeGap == getTimeGapMinutes(
                            currentGroup.pairs[Len(currentGroup.pairs)].timestamp,
                            pair.timestamp)
             topicSimilar == isTopicSimilar(currentGroup.topic, pairTopic)
         IN  IF isTopicBoundary(timeGap, topicSimilar)
             THEN GroupsFrom(pairs, i + 1, Append(groups, currentGroup),
                             [topic |-> pairTopic, pairs |-> <<pair>>])
             ELSE GroupsFrom(pairs, i + 1, groups,
                             [currentGroup EXCEPT !.pairs = Append(@, pair)])

detectTopicGroups(pairs) ==
    IF Len(pairs) = 0 THEN <<>>
    ELSE GroupsFrom(pairs, 2, <<>>,
                    [topic |-> extractTopic(pairs[1]), pairs |-> <<pairs[1]>>])

\* formatChunkContent: the topic header, the user text and the assistant text;
\* the texts of the model are shorter than the lengths at which it truncates
\* (10000 characters a message, 20000 the chunk)
formatChunkContent(pair, topic) ==
    [topic |-> topic,
     user |-> pair.userMessage.content,
     assistant |-> pair.assistantMessage.content]

\* the link to the chunk before sequence number n
prevChunkId(sid, sequenceNumber) ==
    IF sequenceNumber > 1 THEN ChunkId(sid, sequenceNumber - 1) ELSE NoChunkId

\* (mutant) the next link stops at the end of every topic group
nextChunkIdWithinGroup(sid, sequenceNumber, topicGroups, g, i) ==
    IF i < Len(topicGroups[g].pairs)
    THEN ChunkId(sid, sequenceNumber + 1) ELSE NoChunkId

\* the link to the chunk after pair i of group g
nextChunkId(sid, sequenceNumber, topicGroups, g, i) ==
    IF i < Len(topicGroups[g].pairs) \/ g # Len(topicGroups)
    THEN ChunkId(sid, sequenceNumber + 1) ELSE NoChunkId

\* processSession, step 3: the chunks of groups g.. from pair i of group g on,
\* sequenceNumber being the number of chunks emitted so far
RECURSIVE EmitFrom(_, _, _, _, _, _)
EmitFrom(session, topicGroups, g, i, sequenceNumber, clock) ==
    IF g > Len(topicGroups) THEN <<>>
    ELSE IF i > Len(topicGroups[g].pairs)
    THEN EmitFrom(session, topicGroups, g + 1, 1, sequenceNumber, clock)
    ELSE LET group == topicGroups[g]
             pair == group.pairs[i]
             n == sequenceNumber + 1
         IN  <<[chunk_id |-> ChunkId(session.id, n),
                session_id |-> session.id,
                sequence_number |-> n,
                chunk_type |-> "message_pair",
                content |-> formatChunkContent(pair, group.topic),
                user_message |-> pair.userMessage.content,
                assistant_message |-> pair.assistantMessage.content,
                timestamp |-> pair.timestamp,
                project_path |-> session.project_path,
                message_count |-> (IF pair.userMessage # NoMessage THEN 1 ELSE 0)
                                + (IF pair.assistantMessage # NoMessage THEN 1 ELSE 0),
                previous_chunk |-> prevChunkId(session.id, n),
                next_chunk |-> nextChunkId(session.id, n, topicGroups, g, i),
                topic_group |-> group.topic,
                token_count |-> 0,
                processing_date |-> clock]>>
             \o EmitFrom(session, topicGroups, g, i + 1, n, clock)

conversationMessages(messages) ==
    SelectSeq(messages, LAMBDA m : m.role # "system")

processSession(session, messages, clock) ==
    IF Len(conversationMessages(messages)) = 0 THEN <<>>
    ELSE EmitFrom(session,
                  detectTopicGroups(createMessagePairs(conversationMessages(messages))),
                  1, 1, 0, clock)

\* ---- SpecChunk: build a message list (ordered by timestamp, as
\* findBySession returns it), then call processSession on it
ChunkStart ==
    /\ c_messages = <<>>
    /\ c_pairs = <<>>
    /\ c_groups = <<>>
    /\ c_chunks = <<>>
    /\ c_pc = "input"
    /\ c_now = 0
    /\ c_second = <<>>

AddMessage ==
    /\ c_pc = "input"
    /\ Len(c_messages) < MaxMessages
    /\ \E r \in Roles, c \in Contents, g \in Gaps :
           c_messages' = Append(c_messages,
               [uuid |-> Len(c_messages) + 1, role |-> r, content |-> c,
                timestamp |-> IF c_messages = <<>> THEN 0
                              ELSE c_messages[Len(c_messages)].timestamp + g])
    /\ UNCHANGED <<c_pairs, c_groups, c_chunks, c_pc, c_now, c_second>>
    /\ UNCHANGED <<embedVars, storeVars, indexVars, parseVars, textVars, importAllVars,
                 topicVars, formatVars, migrateVars>>

ProcessSession ==
    /\ c_pc = "input"
    /\ c_pairs' = createMessagePairs(conversationMessages(c_messages))
    /\ c_groups' = detectTopicGroups(createMessagePairs(conversationMessages(c_messages)))
    /\ c_chunks' = processSession(chunkSession, c_messages, c_now)
    /\ c_pc' = "done"
    /\ UNCHANGED <<c_messages, c_now, c_second>>
    /\ UNCHANGED <<embedVars, storeVars, indexVars, parseVars, textVars, importAllVars,
                 topicVars, formatVars, migrateVars>>

\* time passes between the two calls
ChunkTick ==
    /\ c_pc = "done"
    /\ c_now < MaxClock
    /\ c_now' = c_now + 1
    /\ UNCHANGED <<c_messages, c_pairs, c_groups, c_chunks, c_pc, c_second>>
    /\ UNCHANGED <<embedVars, storeVars, indexVars, parseVars, textVars, importAllVars,
                 topicVars, formatVars, migrateVars>>

\* processSession is called again with the same session and message list
ProcessSessionAgain ==
    /\ c_pc = "done"
    /\ c_second' = processSession(chunkSession, c_messages, c_now)
    /\ c_pc' = "again"
    /\ UNCHANGED <<c_messages, c_pairs, c_groups, c_chunks, c_now>>
    /\ UNCHANGED <<embedVars, storeVars, indexVars, parseVars, textVars, importAllVars,
                 topicVars, formatVars, migrateVars>>

ChunkNext == AddMessage \/ ProcessSession \/ ChunkTick \/ ProcessSessionAgain


(***************************************************************************)
(* Properties of ChunkManager                                              *)
(***************************************************************************)
\* the non-system messages of the call, in order
c_conv == conversationMessages(c_messages)

\* the messages that occupy a slot of some pair, pair by pair
RECURSIVE SlotsOf(_, _)
SlotsOf(pairs, k) ==
    IF k > Len(pairs) THEN <<>>
    ELSE (IF pairs[k].userMessage # NoMessage THEN <<pairs[k].userMessage>> ELSE <<>>)
         \o (IF pairs[k].assistantMessage # NoMessage
             THEN <<pairs[k].assistantMessage>> ELSE <<>>)
         \o SlotsOf(pairs, k + 1)

\* the pairing rules of the three cases, read off the message list
PairingRules ==
    \A p \in 1..Len(c_conv) :
        LET m == c_conv[p]
            followed == p < Len(c_conv) /\ c_conv[p + 1].role = "assistant"
            consumed == p > 1 /\ c_conv[p - 1].role = "user"
        IN  /\ (m.role = "user" /\ followed) =>
                \E k \in 1..Len(c_pairs) :
                    /\ c_pairs[k].userMessage = m
                    /\ c_pairs[k].assistantMessage = c_conv[p + 1]
            /\ (m.role = "user" /\ ~followed) =>
                \E k \in 1..Len(c_pairs) :
                    /\ c_pairs[k].userMessage = m
                    /\ c_pairs[k].assistantMessage = NoMessage
            /\ (m.role = "assistant" /\ ~consumed) =>
                \E k \in 1..Len(c_pairs) :
                    /\ c_pairs[k].userMessage = NoMessage
                    /\ c_pairs[k].assistantMessage = m

\* C7: Adjacency chain integrity. For the N >= 1 chunks c1..cN that
\* processSession emits, ck.next_chunk is c(k+1).chunk_id for k < N,
\* ck.previous_chunk is c(k-1).chunk_id for k > 1, c1 has no previous_chunk
\* and cN has no next_chunk.
C7_AdjacencyChain ==
    c_pc = "done" =>
        \A k \in 1..Len(c_chunks) :
            /\ c_chunks[k].next_chunk =
                   (IF k < Len(c_chunks) THEN c_chunks[k + 1].chunk_id ELSE NoChunkId)
            /\ c_chunks[k].previous_chunk =
                   (IF k > 1 THEN c_chunks[k - 1].chunk_id ELSE NoChunkId)

\* three chunks that lie in more than one topic group
C7_Witness ==
    c_pc = "done" /\ Len(c_chunks) = 3 /\ Len(c_groups) >= 2

\* The pairing of the user and assistant messages: over the non-system
\* messages in order, a user message immediately followed by an assistant
\* message forms one pair with it, a user message not so followed forms a pair
\* with an empty response, an assistant message not consumed by a preceding
\* user forms a pair with an empty question; every user or assistant message is
\* in exactly one pair, a message of any other role is in none, and the pairs
\* keep message order.
C8_Pairing ==
    c_pc = "done" =>
        /\ PairingRules
        /\ SlotsOf(c_pairs, 1) =
               SelectSeq(c_conv, LAMBDA m : m.role \in {"user", "assistant"})
        /\ \A k \in 1..Len(c_pairs) :
               c_pairs[k].userMessage # NoMessage \/ c_pairs[k].assistantMessage # NoMessage

\* the list [U1, A1, U2] was paired
C8_Witness ==
    /\ c_pc = "done"
    /\ Len(c_messages) = 3
    /\ c_messages[1].role = "user"
    /\ c_messages[2].role = "assistant"
    /\ c_messages[3].role = "user"
    /\ Len(c_pairs) = 2
    /\ c_pairs[1].userMessage = c_messages[1]
    /\ c_pairs[1].assistantMessage = c_messages[2]
    /\ c_pairs[2].userMessage = c_messages[3]
    /\ c_pairs[2].assistantMessage = NoMessage

\* C8: Pairing.  Over the non-system messages in order, a user message
\* immediately followed by an assistant message forms one pair consuming both,
\* a user message not so followed forms a pair with an empty response, an
\* assistant message not consumed by a preceding user forms a pair with an
\* empty question; every non-system message is in exactly one pair and the
\* pairs keep message order.
C8_Original ==
    c_pc = "done" =>
        /\ PairingRules
        /\ SlotsOf(c_pairs, 1) = c_conv

\* the index of the topic group that holds the k-th pair of the conversation
RECURSIVE GroupIndexOf(_, _, _)
GroupIndexOf(groups, g, k) ==
    IF g > Len(groups) THEN 0
    ELSE IF k <= Len(groups[g].pairs) THEN g
    ELSE GroupIndexOf(groups, g + 1, k - Len(groups[g].pairs))

\* pairs k and k+1 have the same topic keyword and are more than 30 minutes apart
SameTopicTimeGap(k) ==
    /\ k < Len(c_pairs)
    /\ extractTopic(c_pairs[k]) = extractTopic(c_pairs[k + 1])
    /\ getTimeGapMinutes(c_pairs[k].timestamp, c_pairs[k + 1].timestamp) > TopicGapMinutes

\* C9 (as amended): Topic split on time gap. Two consecutive pairs with the
\* same topic keyword and timestamps more than 30 minutes apart land in
\* different topic groups; the adjacency chain of the emitted chunks is not
\* broken there: the earlier chunk's next link is the later chunk and the
\* later chunk's previous link is the earlier chunk.
C9_TopicSplitOnTimeGap ==
    c_pc = "done" =>
        \A k \in 1..Len(c_pairs) :
            SameTopicTimeGap(k) =>
                /\ GroupIndexOf(c_groups, 1, k + 1) = GroupIndexOf(c_groups, 1, k) + 1
                /\ Len(c_chunks) = Len(c_pairs)
                /\ c_chunks[k].next_chunk = c_chunks[k + 1].chunk_id
                /\ c_chunks[k + 1].previous_chunk = c_chunks[k].chunk_id

\* two same-topic pairs more than 30 minutes apart were chunked
C9_Witness ==
    /\ c_pc = "done"
    /\ \E k \in 1..Len(c_pairs) :
           /\ SameTopicTimeGap(k)
           /\ extractTopic(c_pairs[k]) = "react"
           /\ Len(c_chunks) > k

\* C9 (as claimed): the split is evidenced by a broken adjacency chain.
C9_Original ==
    c_pc = "done" =>
        \A k \in 1..Len(c_pairs) :
            SameTopicTimeGap(k) =>
                /\ GroupIndexOf(c_groups, 1, k + 1) # GroupIndexOf(c_groups, 1, k)
                /\ c_chunks[k].next_chunk # c_chunks[k + 1].chunk_id
                /\ c_chunks[k + 1].previous_chunk # c_chunks[k].chunk_id

\* the pairs of the groups g.., one after the other
RECURSIVE flattenGroups(_, _)
flattenGroups(groups, g) ==
    IF g > Len(groups) THEN <<>>
    ELSE groups[g].pairs \o flattenGroups(groups, g + 1)

\* the minutes between pairs k and k+1
gapAfter(k) ==
    IF c_pairs[k + 1].timestamp >= c_pairs[k].timestamp
    THEN c_pairs[k + 1].timestamp - c_pairs[k].timestamp
    ELSE c_pairs[k].timestamp - c_pairs[k + 1].timestamp

\* C27: Topic grouping.  The topic of a group is the topic of its first pair.
\* Pair k+1 starts a new group if and only if it is more than 30 minutes from
\* pair k or its topic is not related to the topic of the group of pair k;
\* consecutive pairs with the same topic and at most 30 minutes apart are in
\* one group; the groups, one after the other, are the pairs in their order.
C27_TopicGrouping ==
    c_pc = "done" =>
        /\ flattenGroups(c_groups, 1) = c_pairs
        /\ \A g \in 1..Len(c_groups) :
               /\ Len(c_groups[g].pairs) > 0
               /\ c_groups[g].topic = extractTopic(c_groups[g].pairs[1])
        /\ \A k \in 1..(Len(c_pairs) - 1) :
               LET g == GroupIndexOf(c_groups, 1, k)
                   h == GroupIndexOf(c_groups, 1, k + 1)
               IN  /\ h \in {g, g + 1}
                   /\ h = g + 1
                          <=> \/ gapAfter(k) > 30
                              \/ ~isTopicSimilar(c_groups[g].topic,
                                                 extractTopic(c_pairs[k + 1]))
                   /\ (extractTopic(c_pairs[k]) = extractTopic(c_pairs[k + 1])
                          /\ gapAfter(k) <= 30)
                         => h = g

\* three pairs at most 30 minutes apart: the second, of a related topic,
\* stays in the group of the first; the third, of an unrelated topic, starts
\* a group
C27_Witness ==
    /\ c_pc = "done"
    /\ Len(c_pairs) = 3
    /\ gapAfter(1) <= 30
    /\ gapAfter(2) <= 30
    /\ extractTopic(c_pairs[1]) = "react"
    /\ extractTopic(c_pairs[2]) = "component"
    /\ extractTopic(c_pairs[3]) = "general"
    /\ Len(c_groups) = 2
    /\ Len(c_groups[1].pairs) = 2
    /\ c_groups[2].topic = "general"

\* C29: Sequence numbers and chunk identity.  The chunks of a session carry
\* the sequence numbers 1..N in the order they are emitted, across topic
\* groups, one chunk per pair; the id of a chunk is made of the session id and
\* the sequence number and of nothing else, so the ids are pairwise distinct;
\* chunking the same messages again gives the same ids.
C29_SequenceAndIdentity ==
    c_pc \in {"done", "again"} =>
        /\ Len(c_chunks) = Len(c_pairs)
        /\ \A k \in 1..Len(c_chunks) :
               /\ c_chunks[k].sequence_number = k
               /\ c_chunks[k].session_id = chunkSession.id
               /\ c_chunks[k].chunk_id = [conv |-> chunkSession.id, pair |-> k]
        /\ \A k, l \in 1..Len(c_chunks) :
               c_chunks[k].chunk_id = c_chunks[l].chunk_id => k = l
        /\ c_pc = "again"
               => /\ Len(c_second) = Len(c_chunks)
                  /\ \A k \in 1..Len(c_chunks) :
                         /\ c_second[k].chunk_id = c_chunks[k].chunk_id
                         /\ c_second[k].sequence_number
                                = c_chunks[k].sequence_number

\* three chunks in two topic groups, chunked again at a later time
C29_Witness ==
    /\ c_pc = "again"
    /\ c_now = 1
    /\ Len(c_groups) = 2
    /\ Len(c_chunks) = 3
    /\ Len(c_groups[1].pairs) = 1
    /\ c_chunks[3].sequence_number = 3
    /\ c_second[3].chunk_id = c_chunks[3].chunk_id
    /\ c_second[3].processing_date # c_chunks[3].processing_date

\* a chunk without its processing date
withoutDate(chunk) == [f \in DOMAIN chunk \ {"processing_date"} |-> chunk[f]]

\* C21: Chunker determinism.  Two processSession calls with the same session
\* and the same ordered message list return identical chunk lists, every
\* field of every chunk included, whenever the calls are made.
C21_Determinism ==
    c_pc = "again" => c_second = c_chunks

\* what the two calls agree on: everything but the processing date
SameButProcessingDate ==
    c_pc = "again" =>
        /\ Len(c_second) = Len(c_chunks)
        /\ \A k \in 1..Len(c_chunks) :
               withoutDate(c_second[k]) = withoutDate(c_chunks[k])

(***************************************************************************)
(* EmbeddingService.embedBatch                                             *)
(***************************************************************************)
Texts == {"hi", "hello"}

TextLength(text) == CASE text = "hi" -> 2 [] text = "hello" -> 5 [] OTHER -> 0

\* Math.ceil(text.length / 4)
estimateTokens(text) == (TextLength(text) + 3) \div 4

\* what embed(text) resolves to
Embedding(text) == [embedding |-> <<"nomic", text>>, token_count |-> estimateTokens(text)]

\* the substitute of the catch block: 768 zeros, token count 0
ZeroEmbedding == [embedding |-> <<"zeros">>, token_count |-> 0]

EmptySlot == [embedding |-> <<>>, token_count |-> 0]

Min(a, b) == IF a <= b THEN a ELSE b

\* (mutant) one worker per text, whatever the concurrency
workerCountPerText(concurrency, n) == n

\* Math.min(concurrency, texts.length): the number of workers launched
workerCount(concurrency, n) == Min(concurrency, n)

\* (mutant) the slot is read off the shared cursor when the call settles
resultSlotAtCursor(worker, cursor) == cursor

\* results[index]: the slot a worker writes is the index it claimed
resultSlot(worker, cursor) == worker.index

\* (mutant) a worker ends after its first embed call
workerLoopOnce(st, w, n) ==
    IF st.cursor < n /\ st.workers[w].state = "new"
    THEN [cursor |-> st.cursor + 1,
          workers |-> [st.workers EXCEPT
                          ![w] = [state |-> "awaiting", index |-> st.cursor + 1]],
          claims |-> [st.claims EXCEPT ![st.cursor + 1] = @ + 1]]
    ELSE [st EXCEPT !.workers[w] = [state |-> "done", index |-> 0]]

\* one worker from the head of its loop to its next await, or to its end:
\* while (cursor < queue.length) { idx = cursor++; ... await embed(text) }
workerLoop(st, w, n) ==
    IF st.cursor < n
    THEN [cursor |-> st.cursor + 1,
          workers |-> [st.workers EXCEPT
                          ![w] = [state |-> "awaiting", index |-> st.cursor + 1]],
          claims |-> [st.claims EXCEPT ![st.cursor + 1] = @ + 1]]
    ELSE [st EXCEPT !.workers[w] = [state |-> "done", index |-> 0]]

\* Array(k).fill(null).map(() => worker()): each worker runs to its first await
RECURSIVE launchWorkers(_, _, _, _)
launchWorkers(st, w, k, n) ==
    IF w > k THEN st
    ELSE launchWorkers(workerLoop(st, w, n), w + 1, k, n)

inFlight == {w \in 1..Len(e_workers) : e_workers[w].state = "awaiting"}

EmbedIdle ==
    /\ e_texts = <<>>
    /\ e_concurrency = 1
    /\ e_pc = "idle"
    /\ e_cursor = 0
    /\ e_results = <<>>
    /\ e_workers = <<>>
    /\ e_claims = <<>>
    /\ e_writers = <<>>
    /\ e_outcome = <<>>

\* embedBatch(texts, concurrency) up to `await Promise.all(workers)`
EmbedBatch ==
    /\ e_pc = "idle"
    /\ \E n \in 0..MaxTexts, concurrency \in 1..MaxConcurrency :
       \E texts \in [1..n -> Texts] :
           LET k == workerCount(concurrency, n)
               st == launchWorkers(
                         [cursor |-> 0,
                          workers |-> [w \in 1..k |-> [state |-> "new", index |-> 0]],
                          claims |-> [i \in 1..n |-> 0]],
                         1, k, n)
           IN  /\ e_texts' = texts
               /\ e_concurrency' = concurrency
               /\ e_cursor' = st.cursor
               /\ e_workers' = st.workers
               /\ e_claims' = st.claims
               /\ e_results' = [i \in 1..n |-> EmptySlot]
               /\ e_writers' = [i \in 1..n |-> {}]
               /\ e_outcome' = [i \in 1..n |-> "pending"]
    /\ e_pc' = "running"
    /\ UNCHANGED <<chunkVars, storeVars, indexVars, parseVars, textVars, importAllVars,
                 topicVars, formatVars, migrateVars>>

\* the embed call of worker w resolves (ok) or rejects; the worker writes its
\* slot and runs on to its next await or to its end
EmbedSettles ==
    /\ e_pc = "running"
    /\ \E w \in inFlight, ok \in BOOLEAN :
           LET worker == e_workers[w]
               slot == resultSlot(worker, e_cursor)
               st == workerLoop([cursor |-> e_cursor, workers |-> e_workers,
                                 claims |-> e_claims], w, Len(e_texts))
           IN  /\ e_results' = [e_results EXCEPT
                      ![slot] = IF ok THEN Embedding(e_texts[worker.index])
                                ELSE ZeroEmbedding]
               /\ e_writers' = [e_writers EXCEPT ![slot] = @ \cup {w}]
               /\ e_outcome' = [e_outcome EXCEPT
                      ![worker.index] = IF ok THEN "ok" ELSE "failed"]
               /\ e_cursor' = st.cursor
               /\ e_workers' = st.workers
               /\ e_claims' = st.claims
    /\ UNCHANGED <<e_texts, e_concurrency, e_pc>>
    /\ UNCHANGED <<chunkVars, storeVars, indexVars, parseVars, textVars, importAllVars,
                 topicVars, formatVars, migrateVars>>

\* Promise.all(workers) resolves: every worker has ended
EmbedBatchReturns ==
    /\ e_pc = "running"
    /\ \A w \in 1..Len(e_workers) : e_workers[w].state = "done"
    /\ e_pc' = "returned"
    /\ UNCHANGED <<e_texts, e_concurrency, e_cursor, e_results, e_workers,
                   e_claims, e_writers, e_outcome>>
    /\ UNCHANGED <<chunkVars, storeVars, indexVars, parseVars, textVars, importAllVars,
                 topicVars, formatVars, migrateVars>>

EmbedNext == EmbedBatch \/ EmbedSettles \/ EmbedBatchReturns

\* C3: Concurrency bound. During embedBatch(texts, concurrency) the number of
\* embed requests in flight never exceeds concurrency, nor the number of
\* texts, in every interleaving of completions and failures.
C3_ConcurrencyBound ==
    e_pc = "running" =>
        /\ Cardinality(inFlight) <= e_concurrency
        /\ Cardinality(inFlight) <= Len(e_texts)

\* more texts than workers, a failed call behind, and the pool full
C3_Witness ==
    /\ e_pc = "running"
    /\ Len(e_texts) > e_concurrency
    /\ e_concurrency = 2
    /\ Cardinality(inFlight) = 2
    /\ \E i \in 1..Len(e_texts) : e_outcome[i] = "failed"

\* C10: Worker pool slots and order. Every input index is claimed by exactly
\* one worker, no two workers ever write the same results slot, and on return
\* results[i] is the outcome of the embed call for texts[i], whatever the
\* order in which the calls complete.
C10_SlotsAndOrder ==
    /\ \A i \in 1..Len(e_claims) : e_claims[i] <= 1
    /\ \A i \in 1..Len(e_writers) : Cardinality(e_writers[i]) <= 1
    /\ e_pc = "returned" =>
           \A i \in 1..Len(e_texts) :
               /\ e_claims[i] = 1
               /\ e_outcome[i] \in {"ok", "failed"}
               /\ e_results[i] = IF e_outcome[i] = "ok"
                                 THEN Embedding(e_texts[i]) ELSE ZeroEmbedding

\* a batch of different texts returned after the call for texts[2] settled
\* (and failed) before the call for texts[1]: worker 2 went on to texts[3]
C10_Witness ==
    /\ e_pc = "returned"
    /\ Len(e_texts) = 3
    /\ e_concurrency = 2
    /\ e_texts[1] # e_texts[2]
    /\ e_writers[1] = {1}
    /\ e_writers[3] = {2}
    /\ e_outcome[2] = "failed"

\* C35: embedBatch completeness.  Every embed call returning or failing, a
\* running embedBatch returns; what it returns has one entry per text and no
\* slot left unfilled: the zero vector with token count 0 in the slots of the
\* texts whose embed call failed and in no other, the embedding of the text
\* in every other slot.
C35_EmbedBatchCompleteness ==
    /\ (e_pc = "running") ~> (e_pc = "returned")
    /\ [](e_pc = "returned" =>
              /\ Len(e_results) = Len(e_texts)
              /\ \A i \in 1..Len(e_texts) :
                     /\ e_results[i] # EmptySlot
                     /\ e_outcome[i] # "pending"
                     /\ e_results[i] = ZeroEmbedding <=> e_outcome[i] = "failed"
                     /\ e_outcome[i] = "ok" => e_results[i] = Embedding(e_texts[i]))

\* three texts and a single worker: the call for the second text failed, the
\* two others are embedded
C35_Witness ==
    /\ e_pc = "returned"
    /\ Len(e_texts) = 3
    /\ e_concurrency = 1
    /\ e_outcome = <<"ok", "failed", "ok">>
    /\ e_results[1] = Embedding(e_texts[1])
    /\ e_results[2] = ZeroEmbedding
    /\ e_results[3] = Embedding(e_texts[3])

(***************************************************************************)
(* The store (SessionRepository, MessageRepository, TagRepository,         *)
(* ProjectRepository) and ImportService.importFile                         *)
(***************************************************************************)
SessionIds == {"s1", "s2"}
Uuids == {"m1", "m2"}
FilePaths == {"a.jsonl", "b.jsonl"}
Tags == {"keep"}

\* the session that is registered early, tagged and titled by the user
StubIds == {"s1"}

\* the transcript files: two files claim session s1, one claims s2
FileOwners == {<<"s1", "a.jsonl">>, <<"s1", "b.jsonl">>, <<"s2", "a.jsonl">>}

Null == "null"
NoSession == [is_null |-> TRUE]
StubFilePath == "STUB:pending_import"

\* What the parser read in a file besides its messages: file a.jsonl carries a
\* working directory and a summary title, file b.jsonl neither (its title is
\* generated from the first user message).
FileCwd(file_path) == IF file_path = "a.jsonl" THEN "/home/u/p" ELSE Null
FileTitle(file_path) == IF file_path = "a.jsonl" THEN "summary a" ELSE "first words b"

\* ParsedSession: the messages carry the file's session id, except the first
\* `orphans` ones, parsed before a record carried the session id
ParsedMessages(id, file_path, uuids, orphans) ==
    [k \in 1..Len(uuids) |->
        [uuid |-> uuids[k],
         session_id |-> IF k <= orphans THEN Null ELSE id,
         role |-> IF k % 2 = 1 THEN "user" ELSE "assistant",
         content |-> <<"text of", file_path>>,
         timestamp |-> 1]]

ParsedFiles ==
    { [id |-> o[1],
       file_path |-> o[2],
       project_path |-> FileCwd(o[2]),
       cwd |-> FileCwd(o[2]),
       title |-> FileTitle(o[2]),
       started_at |-> 1,
       ended_at |-> 1,
       messages |-> ParsedMessages(o[1], o[2], uuids, orphans)] :
      o \in FileOwners,
      uuids \in UNION {[1..n -> Uuids] : n \in 1..MaxFileMessages},
      orphans \in {0, 1} }

\* ---- SessionRepository
sessionExists(ss, id) == ss[id] # NoSession

isStub(ss, id) == ss[id] # NoSession /\ ss[id].is_stub

\* create(input); absent input fields are stored as NULL / 0
createSession(ss, input) ==
    [ss EXCEPT ![input.id] =
        [file_path |-> input.file_path,
         project_id |-> input.project_id,
         project_path |-> input.project_path,
         cwd |-> input.cwd,
         started_at |-> input.started_at,
         ended_at |-> input.ended_at,
         message_count |-> input.message_count,
         title |-> input.title,
         summary |-> Null,
         is_title_auto_generated |-> input.is_title_auto_generated,
         is_stub |-> FALSE]]

createStub(ss, id, clock) ==
    [ss EXCEPT ![id] =
        [file_path |-> StubFilePath,
         project_id |-> 0,
         project_path |-> Null,
         cwd |-> Null,
         started_at |-> clock,
         ended_at |-> Null,
         message_count |-> 0,
         title |-> Null,
         summary |-> Null,
         is_title_auto_generated |-> FALSE,
         is_stub |-> TRUE]]

\* (mutant) the promotion also takes the parsed title
updateFromImportWithTitle(ss, id, input) ==
    [ss EXCEPT ![id] =
        [@ EXCEPT !.file_path = input.file_path,
                  !.project_id = input.project_id,
                  !.project_path = input.project_path,
                  !.cwd = input.cwd,
                  !.started_at = input.started_at,
                  !.ended_at = input.ended_at,
                  !.message_count = input.message_count,
                  !.title = input.title,
                  !.is_stub = FALSE]]

\* (mutant) the promotion leaves the stub flag set
updateFromImportKeepingStub(ss, id, input) ==
    [ss EXCEPT ![id] =
        [@ EXCEPT !.file_path = input.file_path,
                  !.project_id = input.project_id,
                  !.project_path = input.project_path,
                  !.cwd = input.cwd,
                  !.started_at = input.started_at,
                  !.ended_at = input.ended_at,
                  !.message_count = input.message_count]]

updateFromImport(ss, id, input) ==
    [ss EXCEPT ![id] =
        [@ EXCEPT !.file_path = input.file_path,
                  !.project_id = input.project_id,
                  !.project_path = input.project_path,
                  !.cwd = input.cwd,
                  !.started_at = input.started_at,
                  !.ended_at = input.ended_at,
                  !.message_count = input.message_count,
                  !.is_stub = FALSE]]

\* update(id, {message_count})
updateMessageCount(ss, id, message_count) ==
    IF ss[id] = NoSession THEN ss
    ELSE [ss EXCEPT ![id].message_count = message_count]

\* update(id, {title, summary})
updateTitleSummary(ss, id, title, summary) ==
    IF ss[id] = NoSession THEN ss
    ELSE [ss EXCEPT ![id].title = title, ![id].summary = summary,
                    ![id].is_title_auto_generated = FALSE]

\* ---- ProjectRepository
RECURSIVE findByPath(_, _, _)
findByPath(ps, path, k) ==
    IF k > Len(ps) THEN 0
    ELSE IF ps[k] = path THEN k
    ELSE findByPath(ps, path, k + 1)

\* (mutant) a project row is inserted without looking the path up
getOrCreateAlways(ps, path) == [projects |-> Append(ps, path), id |-> Len(ps) + 1]

\* getOrCreate(path): the project table afterwards and the project's id
getOrCreate(ps, path) ==
    IF findByPath(ps, path, 1) # 0
    THEN [projects |-> ps, id |-> findByPath(ps, path, 1)]
    ELSE [projects |-> Append(ps, path), id |-> Len(ps) + 1]

\* ---- MessageRepository
\* (mutant) the uuid column has no UNIQUE index
uuidStoredNever(ms, uuid) == FALSE

\* messages.uuid is UNIQUE over the whole table
uuidStored(ms, uuid) == \E k \in 1..Len(ms) : ms[k].uuid = uuid

\* create(input): "inserted", or the constraint that failed. NOT NULL is
\* tested before the UNIQUE index; the foreign key when the statement ends.
insertOutcome(ms, ss, input) ==
    IF input.session_id = Null THEN "NOT NULL constraint failed"
    ELSE IF uuidStored(ms, input.uuid) THEN "UNIQUE constraint failed"
    ELSE IF input.session_id \notin DOMAIN ss \/ ss[input.session_id] = NoSession
    THEN "FOREIGN KEY constraint failed"
    ELSE "inserted"

\* (mutant) a duplicate aborts the batch like any other error
isDuplicateErrorNever(outcome) == FALSE

\* error.message.includes('UNIQUE constraint failed')
isDuplicateError(outcome) == outcome = "UNIQUE constraint failed"

\* createMany: the loop from input k on, inside the transaction
RECURSIVE createManyFrom(_, _, _, _, _)
createManyFrom(ms, ss, inputs, k, created) ==
    IF k > Len(inputs)
    THEN [messages |-> ms, created |-> created, threw |-> FALSE, error |-> Null]
    ELSE LET outcome == insertOutcome(ms, ss, inputs[k])
         IN  IF outcome = "inserted"
             THEN createManyFrom(Append(ms, inputs[k]), ss, inputs, k + 1, created + 1)
             ELSE IF isDuplicateError(outcome)
             THEN createManyFrom(ms, ss, inputs, k + 1, created)
             ELSE [messages |-> ms, created |-> created, threw |-> TRUE,
                   error |-> outcome]

\* createMany(inputs): an error other than a duplicate leaves the
\* transaction, which rolls back every insert of the call
createMany(ms, ss, inputs) ==
    LET r == createManyFrom(ms, ss, inputs, 1, 0)
    IN  IF r.threw
        THEN [messages |-> ms, created |-> 0, threw |-> TRUE, error |-> r.error]
        ELSE r

\* ---- ImportService.importFile(file, skipExisting): the store afterwards and
\* what the call returned (ret, or threw when it ended in an exception);
\* reached: the call got to the message insertion; promoted: it updated a stub
importFile(ss, ms, ps, session, skipExisting) ==
    LET existingSession == sessionExists(ss, session.id)
        stub == existingSession /\ isStub(ss, session.id)
    IN  IF skipExisting /\ existingSession /\ ~stub
        THEN [sessions |-> ss, messages |-> ms, projects |-> ps, ret |-> 0,
              threw |-> FALSE, reached |-> FALSE, promoted |-> FALSE,
              error |-> Null]
        ELSE LET project == IF session.project_path # Null
                            THEN getOrCreate(ps, session.project_path)
                            ELSE [projects |-> ps, id |-> 0]
                 sessionInput ==
                     [id |-> session.id,
                      file_path |-> session.file_path,
                      project_id |-> project.id,
                      project_path |-> session.project_path,
                      cwd |-> session.cwd,
                      started_at |-> session.started_at,
                      ended_at |-> session.ended_at,
                      message_count |-> Len(session.messages),
                      title |-> session.title,
                      is_title_auto_generated |-> session.title # Null]
                 ss1 == IF stub THEN updateFromImport(ss, session.id, sessionInput)
                        ELSE IF ~existingSession THEN createSession(ss, sessionInput)
                        ELSE ss
                 r == createMany(ms, ss1, session.messages)
             IN  IF r.threw
                 THEN [sessions |-> ss1, messages |-> r.messages,
                       projects |-> project.projects, ret |-> 0,
                       threw |-> TRUE, reached |-> TRUE, promoted |-> stub,
                       error |-> r.error]
                 ELSE [sessions |-> updateMessageCount(ss1, session.id, r.created),
                       messages |-> r.messages,
                       projects |-> project.projects, ret |-> r.created,
                       threw |-> FALSE, reached |-> TRUE, promoted |-> stub,
                       error |-> Null]

NoImport == [op |-> "none"]

StoreEmpty ==
    /\ db_sessions = [id \in SessionIds |-> NoSession]
    /\ db_messages = <<>>
    /\ db_session_tags = {}
    /\ db_projects = <<>>
    /\ last = NoImport

\* SessionRepository.createStub for a session that is not in the store
CreateStub ==
    /\ last = NoImport
    /\ \E id \in StubIds :
           /\ ~sessionExists(db_sessions, id)
           /\ db_sessions' = createStub(db_sessions, id, 0)
    /\ UNCHANGED <<db_messages, db_session_tags, db_projects, last>>
    /\ UNCHANGED <<chunkVars, embedVars, indexVars, parseVars, textVars, importAllVars,
                 topicVars, formatVars, migrateVars>>

\* TagRepository.addToSession: INSERT OR IGNORE, the session must exist
AddToSession ==
    /\ last = NoImport
    /\ \E id \in StubIds, tag \in Tags :
           /\ sessionExists(db_sessions, id)
           /\ db_session_tags' = db_session_tags \cup {<<id, tag>>}
    /\ UNCHANGED <<db_sessions, db_messages, db_projects, last>>
    /\ UNCHANGED <<chunkVars, embedVars, indexVars, parseVars, textVars, importAllVars,
                 topicVars, formatVars, migrateVars>>

\* SessionRepository.update with a user-set title and summary
UpdateSession ==
    /\ last = NoImport
    /\ \E id \in StubIds :
           /\ sessionExists(db_sessions, id)
           /\ db_sessions' = updateTitleSummary(db_sessions, id, "my title", "my summary")
    /\ UNCHANGED <<db_messages, db_session_tags, db_projects, last>>
    /\ UNCHANGED <<chunkVars, embedVars, indexVars, parseVars, textVars, importAllVars,
                 topicVars, formatVars, migrateVars>>

\* one importFile call on the store; `again` tells a second run on the file
\* of the call before
ImportFileOf(session, skipExisting, again) ==
    LET r == importFile(db_sessions, db_messages, db_projects, session, skipExisting)
    IN  /\ db_sessions' = r.sessions
        /\ db_messages' = r.messages
        /\ db_projects' = r.projects
        /\ last' = [op |-> "import", file |-> session, skipExisting |-> skipExisting,
                    ret |-> r.ret, threw |-> r.threw, reached |-> r.reached,
                    promoted |-> r.promoted, again |-> again]
        /\ UNCHANGED db_session_tags
        /\ UNCHANGED <<chunkVars, embedVars, indexVars, parseVars, textVars, importAllVars,
                 topicVars, formatVars, migrateVars>>

\* importFile(file, skipExisting)
ImportFile ==
    /\ last = NoImport
    /\ \E session \in ParsedFiles, skipExisting \in BOOLEAN :
           ImportFileOf(session, skipExisting, FALSE)

\* importFile is run a second time on the file it has just been run on
ImportFileAgain ==
    /\ last # NoImport
    /\ ~last.again
    /\ \E skipExisting \in BOOLEAN :
           ImportFileOf(last.file, skipExisting, TRUE)

\* (history) the caller goes on; the record of the last call is dropped
ImportReturned ==
    /\ last # NoImport
    /\ last' = NoImport
    /\ UNCHANGED <<db_sessions, db_messages, db_session_tags, db_projects>>
    /\ UNCHANGED <<chunkVars, embedVars, indexVars, parseVars, textVars, importAllVars,
                 topicVars, formatVars, migrateVars>>

ImportNext ==
    \/ CreateStub
    \/ AddToSession
    \/ UpdateSession
    \/ ImportFile
    \/ ImportFileAgain
    \/ ImportReturned


\* ---- properties of importFile
rowsWithUuid(ms, uuid) == {k \in 1..Len(ms) : ms[k].uuid = uuid}

fileUuids(session) == {session.messages[k].uuid : k \in 1..Len(session.messages)}

\* every conflict the file's messages can raise on insert is a duplicate uuid
onlyDuplicateConflicts(session) ==
    \A k \in 1..Len(session.messages) : session.messages[k].session_id # Null

\* C2: Idempotent re-import.  When importFile is run a second time on the file
\* it was just run on (either value of skipExisting, both runs returning), the
\* stored message rows and the session's message_count after the second run are
\* those after the first run, and the second run inserts no row.
C2_IdempotentReimport ==
    [][ (last'.op = "import" /\ last'.again /\ ~last.threw /\ ~last'.threw)
        => /\ db_messages' = db_messages
           /\ db_sessions'[last'.file.id].message_count
                  = db_sessions[last'.file.id].message_count
           /\ last'.ret = 0 ]_vars

\* C5: Duplicate-message tolerance.  An importFile that reaches message
\* insertion with a file whose only conflicts are duplicate uuids (within the
\* file or with rows already stored) does not abort; afterwards every uuid of
\* the file has exactly one stored row, the rows stored before are kept as they
\* were, and the returned count is the number of rows added, which is the
\* number of the file's uuids that were not stored before: every duplicate
\* occurrence is skipped and every other message is inserted.
C5_DuplicateTolerance ==
    [][ (last'.op = "import" /\ last'.reached /\ onlyDuplicateConflicts(last'.file))
        => /\ ~last'.threw
           /\ \A u \in fileUuids(last'.file) :
                  Cardinality(rowsWithUuid(db_messages', u)) = 1
           /\ Len(db_messages') >= Len(db_messages)
           /\ SubSeq(db_messages', 1, Len(db_messages)) = db_messages
           /\ last'.ret = Len(db_messages') - Len(db_messages)
           /\ last'.ret = Cardinality({u \in fileUuids(last'.file) :
                                          rowsWithUuid(db_messages, u) = {}}) ]_vars

\* a file <<m1, m2>> whose first message was already stored has been imported:
\* m1 was skipped, m2 inserted after it
C5_Witness ==
    /\ last.op = "import"
    /\ last.reached
    /\ ~last.threw
    /\ onlyDuplicateConflicts(last.file)
    /\ Len(last.file.messages) = 2
    /\ last.file.messages[1].uuid = "m1"
    /\ last.file.messages[2].uuid = "m2"
    /\ last.ret = 1
    /\ Len(db_messages) = 2
    /\ db_messages[1].uuid = "m1"
    /\ db_messages[2].uuid = "m2"

\* C6: Stub non-destructiveness.  When importFile promotes a stub, the tags of
\* every session, and the promoted session's title and summary, are after the
\* call what they were before it, and the session is no longer a stub.
C6_StubNonDestructive ==
    [][ (last'.op = "import" /\ last'.promoted)
        => /\ isStub(db_sessions, last'.file.id)
           /\ db_session_tags' = db_session_tags
           /\ db_sessions'[last'.file.id].title = db_sessions[last'.file.id].title
           /\ db_sessions'[last'.file.id].summary = db_sessions[last'.file.id].summary
           /\ ~isStub(db_sessions', last'.file.id) ]_vars

\* a stub that was tagged and given a title and a summary has been promoted
C6_Witness ==
    /\ last.op = "import"
    /\ last.promoted
    /\ <<last.file.id, "keep">> \in db_session_tags
    /\ db_sessions[last.file.id].title = "my title"
    /\ db_sessions[last.file.id].summary = "my summary"
    /\ ~isStub(db_sessions, last.file.id)

\* the step is an importFile call for a session that exists and is no stub
importOfExisting ==
    /\ last'.op = "import"
    /\ sessionExists(db_sessions, last'.file.id)
    /\ ~isStub(db_sessions, last'.file.id)

\* a session row without its message count
metadataOf(row) == [f \in DOMAIN row \ {"message_count"} |-> row[f]]

\* the rows of ms after the first n
rowsAfter(ms, n) == {ms[k] : k \in (n + 1)..Len(ms)}

\* C16: Reconcile of an existing non-stub session.  With skipExisting = true
\* importFile returns 0 and changes no session, message or project row; with
\* skipExisting = false it only inserts the file's messages that were not
\* stored and leaves the session row (file path, paths, project link,
\* timestamps, title) as it was, the message count still counting the
\* messages that were stored.
C16_ReconcileExisting ==
    [][ importOfExisting
        => IF last'.skipExisting
           THEN /\ last'.ret = 0
                /\ db_sessions' = db_sessions
                /\ db_messages' = db_messages
                /\ db_projects' = db_projects
           ELSE /\ metadataOf(db_sessions'[last'.file.id])
                       = metadataOf(db_sessions[last'.file.id])
                /\ \A id \in SessionIds \ {last'.file.id} :
                       db_sessions'[id] = db_sessions[id]
                /\ db_sessions'[last'.file.id].message_count
                       >= db_sessions[last'.file.id].message_count
                /\ Len(db_messages') >= Len(db_messages)
                /\ SubSeq(db_messages', 1, Len(db_messages)) = db_messages
                /\ \A row \in rowsAfter(db_messages', Len(db_messages)) :
                       /\ row.uuid \in fileUuids(last'.file)
                       /\ ~uuidStored(db_messages, row.uuid) ]_vars

rowsOfSession(ms, id) == {k \in 1..Len(ms) : ms[k].session_id = id}

\* C17: Denormalized count.  After an importFile that reached message
\* insertion and returned, the session's message_count is the number of
\* message rows stored for the session, also when messages of the file were
\* duplicates of rows already stored.
C17_DenormalizedCount ==
    (last.op = "import" /\ last.reached /\ ~last.threw)
        => db_sessions[last.file.id].message_count
               = Cardinality(rowsOfSession(db_messages, last.file.id))

\* C18: Message identity.  In every state of the store no two message rows
\* have the same uuid, whatever sessions they belong to; and no step changes
\* or removes a row that exists: its uuid, content, role, timestamp and
\* session stay as they were inserted.
C18_MessageIdentity ==
    /\ [](\A k, l \in 1..Len(db_messages) :
              db_messages[k].uuid = db_messages[l].uuid => k = l)
    /\ [][ /\ Len(db_messages') >= Len(db_messages)
           /\ SubSeq(db_messages', 1, Len(db_messages)) = db_messages ]_vars

\* a file of session s2 that holds uuid m1 has been imported while m1 was a
\* row of session s1: the colliding message was dropped, the row is as it was
C18_Witness ==
    /\ last.op = "import"
    /\ last.reached
    /\ ~last.threw
    /\ last.file.id = "s2"
    /\ last.file.messages[1].uuid = "m1"
    /\ last.ret = 0
    /\ \E k \in 1..Len(db_messages) :
           /\ db_messages[k].uuid = "m1"
           /\ db_messages[k].session_id = "s1"
           /\ db_messages[k].content # last.file.messages[1].content

\* the step is an importFile call that failed in the message insertion
importFailed == last'.op = "import" /\ last'.reached /\ last'.threw

\* C38: Reconcile failure leaves no partial state.  When importFile fails in
\* the message insertion with an error that is not a duplicate, the session
\* rows and the message rows are what they were before the call: no message
\* of the file is stored, no session row is created, no stub promoted, no
\* message count changed.
C38_NoPartialState ==
    [][ importFailed
           => /\ db_messages' = db_messages
              /\ db_sessions' = db_sessions ]_vars

\* What holds: the failed call leaves the message rows and the tags as they
\* were, and every session but the file's.
FailedImportKeepsMessages ==
    [][ importFailed
           => /\ db_messages' = db_messages
              /\ db_session_tags' = db_session_tags
              /\ \A id \in SessionIds \ {last'.file.id} :
                     db_sessions'[id] = db_sessions[id] ]_vars

\* C31: Stub invariant.  In every state of the store a session whose stub flag
\* is set has no message row, message count 0 and the placeholder file path.
\* A step that stores messages for a session that was a stub is an importFile
\* of that session which promotes it; and every importFile that promotes a
\* stub, whether or not its message insertion succeeds, leaves the session
\* with the flag cleared and the file's path in place of the placeholder.
C31_StubInvariant ==
    /\ [](\A id \in SessionIds :
              isStub(db_sessions, id)
                  => /\ rowsOfSession(db_messages, id) = {}
                     /\ db_sessions[id].message_count = 0
                     /\ db_sessions[id].file_path = StubFilePath)
    /\ [][ \A id \in SessionIds :
               (isStub(db_sessions, id) /\ rowsOfSession(db_messages', id) # {})
                   => /\ last'.op = "import"
                      /\ last'.promoted
                      /\ last'.file.id = id ]_vars
    /\ [][ (last'.op = "import" /\ last'.promoted)
               => /\ isStub(db_sessions, last'.file.id)
                  /\ ~isStub(db_sessions', last'.file.id)
                  /\ db_sessions'[last'.file.id].file_path = last'.file.file_path
                  /\ db_sessions'[last'.file.id].file_path # StubFilePath ]_vars

\* a stub has been promoted by an import that stored a message for it
C31_Witness ==
    /\ last.op = "import"
    /\ last.promoted
    /\ ~last.threw
    /\ last.ret > 0
    /\ rowsOfSession(db_messages, last.file.id) # {}
    /\ ~isStub(db_sessions, last.file.id)
    /\ db_sessions[last.file.id].file_path = last.file.file_path

(***************************************************************************)
(* ChunkIndexer.indexAll, VectorStore.upsertChunks and the vector index    *)
(***************************************************************************)
SessionNames == <<"c1", "c2", "c3", "c4">>

\* the message lists a stored session may have: none, a system message only
\* (messages but no chunk), one question with its answer (one chunk), three
\* questions in a row (three chunks: more than one upsert sub-batch)
NoMessages == <<>>
SystemOnly == <<[uuid |-> 1, role |-> "system", content |-> <<"hello">>, timestamp |-> 0]>>
OnePair == <<[uuid |-> 1, role |-> "user", content |-> <<"hello">>, timestamp |-> 0],
             [uuid |-> 2, role |-> "assistant", content |-> <<"react">>, timestamp |-> 1]>>
ThreeTurns == <<[uuid |-> 1, role |-> "user", content |-> <<"hello">>, timestamp |-> 0],
                [uuid |-> 2, role |-> "user", content |-> <<"git">>, timestamp |-> 1],
                [uuid |-> 3, role |-> "user", content |-> <<"hello">>, timestamp |-> 2]>>
MessageLists == {NoMessages, SystemOnly, OnePair, ThreeTurns}

\* sessionRepo.findAll(): the sessions in started_at order; messages is what
\* messageRepo.findBySession returns for the session
StoredSessions(lists) ==
    [k \in 1..Len(lists) |->
        [id |-> SessionNames[k], project_path |-> "/p", started_at |-> k,
         messages |-> lists[k]]]

NoFile == [kind |-> "none"]
Corrupt == [kind |-> "corrupt"]

\* the Checkpoint that indexAll hands to saveCheckpoint
Checkpoint(lastProcessedSessionId, processedCount, totalSessions, timestamp) ==
    [kind |-> "checkpoint",
     lastProcessedSessionId |-> lastProcessedSessionId,
     processedCount |-> processedCount,
     totalSessions |-> totalSessions,
     timestamp |-> timestamp]

ZeroResult == [totalSessions |-> 0, processedSessions |-> 0, skippedSessions |-> 0,
               totalChunks |-> 0, errors |-> 0]

\* the locals of indexAll: the options, the batch start i, the position j in
\* the batch, the result, and inside upsertChunks the chunks, their embeddings
\* and the sub-batch start k
NoRun == [batchSize |-> 0, freshStart |-> FALSE, startIndex |-> 0, i |-> 0, j |-> 0,
          result |-> ZeroResult, docs |-> <<>>, embeddings |-> <<>>, k |-> 0]

\* allSessions.findIndex(s => s.id === id): 0-based, -1 when absent
findIndex(allSessions, id) ==
    IF \E k \in 1..Len(allSessions) : allSessions[k].id = id
    THEN (CHOOSE k \in 1..Len(allSessions) :
              /\ allSessions[k].id = id
              /\ \A l \in 1..(k - 1) : allSessions[l].id # id) - 1
    ELSE -1

\* (mutant) the run resumes at the checkpointed session, not after it
loadCheckpointAt(allSessions, checkpoint, freshStart) ==
    IF ~freshStart /\ checkpoint.kind = "checkpoint"
       /\ findIndex(allSessions, checkpoint.lastProcessedSessionId) >= 0
    THEN [startIndex |-> findIndex(allSessions, checkpoint.lastProcessedSessionId),
          processedSessions |-> checkpoint.processedCount]
    ELSE [startIndex |-> 0, processedSessions |-> 0]

\* lines 84-101: where the run starts and what processedSessions starts at
loadCheckpoint(allSessions, checkpoint, freshStart) ==
    IF ~freshStart /\ checkpoint.kind = "checkpoint"
       /\ findIndex(allSessions, checkpoint.lastProcessedSessionId) >= 0
    THEN [startIndex |-> findIndex(allSessions, checkpoint.lastProcessedSessionId) + 1,
          processedSessions |-> checkpoint.processedCount]
    ELSE [startIndex |-> 0, processedSessions |-> 0]

\* (mutant) the batch holds only the session at i
batchOfOne(allSessions, i, batchSize) ==
    SubSeq(allSessions, i + 1, Min(i + 1, Len(allSessions)))

\* allSessions.slice(i, i + batchSize), i 0-based
batchOf(allSessions, i, batchSize) ==
    SubSeq(allSessions, i + 1, Min(i + batchSize, Len(allSessions)))

\* chunkToDocument; NoChunkId stands for the empty string of an absent link
chunkToDocument(chunk) ==
    [id |-> chunk.chunk_id,
     content |-> chunk.content,
     metadata |->
        [session_id |-> chunk.session_id,
         sequence_number |-> chunk.sequence_number,
         chunk_type |-> chunk.chunk_type,
         timestamp |-> chunk.timestamp,
         project_path |-> chunk.project_path,
         message_count |-> chunk.message_count,
         previous_chunk |-> chunk.previous_chunk,
         next_chunk |-> chunk.next_chunk,
         topic_group |-> chunk.topic_group,
         token_count |-> chunk.token_count,
         processing_date |-> chunk.processing_date]]

\* chunks.map(c => this.chunkToDocument(c))
sessionChunks(session, clock) ==
    LET chunks == processSession(session, session.messages, clock)
    IN  [n \in 1..Len(chunks) |-> chunkToDocument(chunks[n])]

\* what embedBatch returns for the contents: the embedding of each content,
\* the zero embedding where the embed call failed
embedContents(docs, failed) ==
    [n \in 1..Len(docs) |->
        IF n \in failed THEN ZeroEmbedding.embedding ELSE <<"nomic", docs[n].content>>]

docIds(docs) == {d.id : d \in docs}

\* (mutant) the sub-batch is added to the collection, nothing is replaced
upsertAppending(index, docs, embeddings, k, end) ==
    index \cup {[id |-> docs[n].id, embedding |-> embeddings[n],
                 document |-> docs[n].content, metadata |-> docs[n].metadata] :
                n \in (k + 1)..end}

\* collection.upsert of the entries k+1 .. end of the session's documents
upsert(index, docs, embeddings, k, end) ==
    LET batch == {[id |-> docs[n].id, embedding |-> embeddings[n],
                   document |-> docs[n].content, metadata |-> docs[n].metadata] :
                  n \in (k + 1)..end}
    IN  {d \in index : d.id \notin docIds(batch)} \cup batch

\* (history) the same upsert in a run that wrote each document once only
upsertOnce(index, docs, embeddings, k, end) ==
    LET batch == {[id |-> docs[n].id, embedding |-> embeddings[n],
                   document |-> docs[n].content, metadata |-> docs[n].metadata] :
                  n \in (k + 1)..end}
    IN  index \cup {d \in batch : d.id \notin docIds(index)}

\* (history) nothing has happened in the run yet
NoHistory == [attempted |-> {}, embedFailed |-> {}, upsertFailed |-> FALSE,
              saveFailed |-> FALSE]

IndexIdle ==
    /\ ix_sessions = <<>>
    /\ ix_index = {}
    /\ ix_checkpoint = NoFile
    /\ ix_pc = "idle"
    /\ ix_run = NoRun
    /\ ix_now = 0
    /\ ix_kills = 0
    /\ ix_ref = {}
    /\ ix_completed = {}
    /\ ix_failed = FALSE
    /\ ix_hist = NoHistory

\* a store of one to MaxSessions sessions, an empty collection, no checkpoint
IndexStart ==
    /\ ix_sessions \in {StoredSessions(lists) :
                           lists \in UNION {[1..n -> MessageLists] : n \in 1..MaxSessions}}
    /\ ix_index = {}
    /\ ix_checkpoint = NoFile
    /\ ix_pc = "idle"
    /\ ix_run = NoRun
    /\ ix_now = 0
    /\ ix_kills = 0
    /\ ix_ref = {}
    /\ ix_completed = {}
    /\ ix_failed = FALSE
    /\ ix_hist = NoHistory

currentBatch == batchOf(ix_sessions, ix_run.i, ix_run.batchSize)

\* indexAll is called (for the first time, or again after a kill): lines 60-101
IndexAll ==
    /\ ix_pc = "idle"
    /\ \E batchSize \in 1..MaxBatch, freshStart \in BOOLEAN :
           LET c == loadCheckpoint(ix_sessions, ix_checkpoint, freshStart)
           IN  ix_run' = [NoRun EXCEPT
                              !.batchSize = batchSize,
                              !.freshStart = freshStart,
                              !.startIndex = c.startIndex,
                              !.i = c.startIndex,
                              !.result = [ZeroResult EXCEPT
                                  !.totalSessions = Len(ix_sessions),
                                  !.processedSessions = c.processedSessions]]
    /\ ix_pc' = "batch"
    /\ ix_hist' = NoHistory
    /\ UNCHANGED <<ix_sessions, ix_index, ix_checkpoint, ix_now, ix_kills, ix_ref,
                   ix_completed, ix_failed>>
    /\ UNCHANGED <<chunkVars, embedVars, storeVars, parseVars, textVars, importAllVars,
                 topicVars, formatVars, migrateVars>>

\* line 80: sessionRepo.findAll throws and indexAll, which does not catch it,
\* rejects
IndexAllThrows ==
    /\ ix_pc = "idle"
    /\ ix_pc' = "threw"
    /\ UNCHANGED <<ix_sessions, ix_index, ix_checkpoint, ix_run, ix_now, ix_kills,
                   ix_ref, ix_completed, ix_failed, ix_hist>>
    /\ UNCHANGED <<chunkVars, embedVars, storeVars, parseVars, textVars, importAllVars,
                 topicVars, formatVars, migrateVars>>

\* lines 107-126 for the next session of the batch: fetch its messages and
\* chunk them; a session without messages or without chunks is skipped, an
\* exception of the fetch is counted as one error
FetchSession ==
    /\ ix_pc = "batch"
    /\ ix_run.i < Len(ix_sessions)
    /\ ix_run.j < Len(currentBatch)
    /\ ix_hist' = [ix_hist EXCEPT !.attempted = @ \cup {currentBatch[ix_run.j + 1].id}]
    /\ LET session == currentBatch[ix_run.j + 1]
           docs == sessionChunks(session, ix_now)
       IN  \/ /\ ix_run' = [ix_run EXCEPT !.result.errors = @ + 1, !.j = @ + 1]
              /\ ix_failed' = TRUE
              /\ ix_ref' = {}
              /\ UNCHANGED <<ix_pc, ix_completed>>
           \/ /\ Len(session.messages) = 0 \/ Len(docs) = 0
              /\ ix_run' = [ix_run EXCEPT !.result.skippedSessions = @ + 1, !.j = @ + 1]
              /\ ix_completed' = ix_completed \cup {session.id}
              /\ UNCHANGED <<ix_pc, ix_failed, ix_ref>>
           \/ /\ Len(docs) > 0
              /\ ix_run' = [ix_run EXCEPT !.docs = docs]
              /\ ix_pc' = "embed"
              /\ UNCHANGED <<ix_completed, ix_failed, ix_ref>>
    /\ UNCHANGED <<ix_sessions, ix_index, ix_checkpoint, ix_now, ix_kills>>
    /\ UNCHANGED <<chunkVars, embedVars, storeVars, parseVars, textVars, importAllVars,
                 topicVars, formatVars, migrateVars>>

\* upsertChunks line 265: embedBatch returns; the embed calls of `failed`
\* (none, or the one of the last content) were substituted by the zero
\* embedding
EmbedBatchDone ==
    /\ ix_pc = "embed"
    /\ \E failed \in {{}, {Len(ix_run.docs)}} :
           /\ ix_run' = [ix_run EXCEPT !.embeddings = embedContents(ix_run.docs, failed),
                                       !.k = 0]
           /\ ix_failed' = (ix_failed \/ failed # {})
           /\ ix_ref' = IF failed # {} THEN {} ELSE ix_ref
           /\ ix_hist' = IF failed # {}
                         THEN [ix_hist EXCEPT !.embedFailed =
                                   @ \cup {ix_run.docs[1].metadata.session_id}]
                         ELSE ix_hist
    /\ ix_pc' = "upsert"
    /\ UNCHANGED <<ix_sessions, ix_index, ix_checkpoint, ix_now, ix_kills,
                   ix_completed>>
    /\ UNCHANGED <<chunkVars, embedVars, storeVars, parseVars, textVars, importAllVars,
                 topicVars, formatVars, migrateVars>>

\* upsertChunks lines 268-280, one sub-batch: collection.upsert succeeds, or
\* throws and indexAll counts the session's chunks as errors (lines 130-134);
\* after the last sub-batch the session is counted as processed (136-137)
UpsertSubBatch ==
    /\ ix_pc = "upsert"
    /\ LET docs == ix_run.docs
           end == Min(ix_run.k + UpsertBatchSize, Len(docs))
       IN  \/ /\ ix_index' = upsert(ix_index, docs, ix_run.embeddings, ix_run.k, end)
              /\ ix_ref' = IF ix_failed THEN {}
                           ELSE upsertOnce(ix_ref, docs, ix_run.embeddings, ix_run.k, end)
              /\ IF end < Len(docs)
                 THEN /\ ix_run' = [ix_run EXCEPT !.k = end]
                      /\ UNCHANGED <<ix_pc, ix_completed>>
                 ELSE /\ ix_run' = [ix_run EXCEPT
                                        !.result.processedSessions = @ + 1,
                                        !.result.totalChunks = @ + Len(docs),
                                        !.j = @ + 1,
                                        !.docs = <<>>, !.embeddings = <<>>, !.k = 0]
                      /\ ix_pc' = "batch"
                      /\ ix_completed' = ix_completed \cup {docs[1].metadata.session_id}
              /\ UNCHANGED <<ix_failed, ix_hist>>
           \/ /\ ix_run' = [ix_run EXCEPT
                                !.result.errors = @ + Len(docs),
                                !.j = @ + 1,
                                !.docs = <<>>, !.embeddings = <<>>, !.k = 0]
              /\ ix_pc' = "batch"
              /\ ix_failed' = TRUE
              /\ ix_ref' = {}
              /\ ix_hist' = [ix_hist EXCEPT !.upsertFailed = TRUE]
              /\ UNCHANGED <<ix_index, ix_completed>>
    /\ UNCHANGED <<ix_sessions, ix_checkpoint, ix_now, ix_kills>>
    /\ UNCHANGED <<chunkVars, embedVars, storeVars, parseVars, textVars, importAllVars,
                 topicVars, formatVars, migrateVars>>

\* line 104: i += batchSize
nextBatchStart(i, batchSize) == i + batchSize

atBatchEnd ==
    /\ ix_pc = "batch"
    /\ ix_run.i < Len(ix_sessions)
    /\ ix_run.j = Len(currentBatch)

\* lines 144-155 and saveCheckpoint: the checkpoint names the last session of
\* the batch; a failing write is logged and the run goes on, the file being as
\* it was or left half written
SaveCheckpoint ==
    /\ atBatchEnd
    /\ LET lastSession == currentBatch[Len(currentBatch)]
       IN  \/ /\ ix_checkpoint' =
                     Checkpoint(lastSession.id, ix_run.result.processedSessions,
                                ix_run.result.totalSessions, ix_now)
              /\ UNCHANGED ix_hist
           \/ /\ ix_checkpoint' \in {ix_checkpoint, Corrupt}
              /\ ix_hist' = [ix_hist EXCEPT !.saveFailed = TRUE]
    /\ ix_run' = [ix_run EXCEPT !.i = nextBatchStart(ix_run.i, ix_run.batchSize),
                                !.j = 0]
    /\ UNCHANGED <<ix_sessions, ix_index, ix_pc, ix_now, ix_kills, ix_ref,
                   ix_completed, ix_failed>>
    /\ UNCHANGED <<chunkVars, embedVars, storeVars, parseVars, textVars, importAllVars,
                 topicVars, formatVars, migrateVars>>

\* (mutant) only a checkpoint that parses is removed
removeCheckpointIfValid(checkpoint) ==
    IF checkpoint.kind = "checkpoint" THEN NoFile ELSE checkpoint

\* lines 158-160: if the checkpoint file exists it is unlinked
removeCheckpoint(checkpoint) ==
    IF checkpoint # NoFile THEN NoFile ELSE checkpoint

\* lines 157-163: the list is exhausted, the checkpoint file is removed
IndexAllReturns ==
    /\ ix_pc = "batch"
    /\ ix_run.i >= Len(ix_sessions)
    /\ ix_checkpoint' = removeCheckpoint(ix_checkpoint)
    /\ ix_pc' = "returned"
    /\ UNCHANGED <<ix_sessions, ix_index, ix_run, ix_now, ix_kills, ix_ref,
                   ix_completed, ix_failed, ix_hist>>
    /\ UNCHANGED <<chunkVars, embedVars, storeVars, parseVars, textVars, importAllVars,
                 topicVars, formatVars, migrateVars>>

\* the process is killed while indexAll runs; a kill during the checkpoint
\* write may leave the file half written
Kill ==
    /\ ix_pc \in {"batch", "embed", "upsert"}
    /\ ix_kills < MaxKills
    /\ ix_kills' = ix_kills + 1
    /\ ix_pc' = "idle"
    /\ ix_run' = NoRun
    /\ IF atBatchEnd THEN ix_checkpoint' \in {ix_checkpoint, Corrupt}
       ELSE UNCHANGED ix_checkpoint
    /\ ix_hist' = NoHistory
    /\ UNCHANGED <<ix_sessions, ix_index, ix_now, ix_ref, ix_completed, ix_failed>>
    /\ UNCHANGED <<chunkVars, embedVars, storeVars, parseVars, textVars, importAllVars,
                 topicVars, formatVars, migrateVars>>

\* time passes before indexAll is called, and before it is called again
Tick ==
    /\ ix_pc = "idle"
    /\ ix_now < MaxClock
    /\ ix_now' = ix_now + 1
    /\ UNCHANGED <<ix_sessions, ix_index, ix_checkpoint, ix_pc, ix_run, ix_kills,
                   ix_ref, ix_completed, ix_failed, ix_hist>>
    /\ UNCHANGED <<chunkVars, embedVars, storeVars, parseVars, textVars, importAllVars,
                 topicVars, formatVars, migrateVars>>

IndexNext ==
    \/ IndexAll
    \/ IndexAllThrows
    \/ FetchSession
    \/ EmbedBatchDone
    \/ UpsertSubBatch
    \/ SaveCheckpoint
    \/ IndexAllReturns
    \/ Kill
    \/ Tick

\* ---- properties of indexAll
\* a restarted run has returned and no fetch, embed or upsert call ever failed
resumedRunReturned ==
    /\ ix_pc = "returned"
    /\ ix_kills > 0
    /\ ~ix_run.freshStart
    /\ ~ix_failed

\* C1: Resumability.  With no embedding or upsert failure, when a run that was
\* killed and restarted with freshStart = false returns, the chunk documents
\* in the vector index (ids, text, metadata) are those that one run that is
\* never killed writes.
C1_Resumability ==
    resumedRunReturned => ix_index = ix_ref

\* a document without the processing_date of its metadata
withoutProcessingDate(d) ==
    [id |-> d.id, embedding |-> d.embedding, document |-> d.document,
     metadata |-> [f \in DOMAIN d.metadata \ {"processing_date"} |-> d.metadata[f]]]

\* What the index of a restarted run shares with the index of a run that is
\* never killed: every document, up to the processing_date of its metadata.
ResumedIndexUpToProcessingDate ==
    resumedRunReturned =>
        {withoutProcessingDate(d) : d \in ix_index}
            = {withoutProcessingDate(d) : d \in ix_ref}

\* the sessions at or before the one a checkpoint names, in findAll order
sessionsUpTo(checkpoint) ==
    {ix_sessions[k].id :
        k \in 1..(findIndex(ix_sessions, checkpoint.lastProcessedSessionId) + 1)}

hasChunks(id) ==
    \E k \in 1..Len(ix_sessions) :
        /\ ix_sessions[k].id = id
        /\ Len(processSession(ix_sessions[k], ix_sessions[k].messages, 0)) > 0

checkpointComplete(checkpoint, completed) ==
    /\ sessionsUpTo(checkpoint) \subseteq completed
    /\ checkpoint.processedCount
           = Cardinality({id \in sessionsUpTo(checkpoint) \cap completed : hasChunks(id)})

\* C4: Checkpoint completeness.  Whenever indexAll writes a checkpoint, every
\* session at or before the one it names, in start-time order, has been
\* completed (upserted in full, or skipped for having no messages or no
\* chunks), and the recorded processedCount is the number of those sessions
\* that were upserted.
C4_CheckpointCompleteness ==
    [][ (ix_checkpoint' # ix_checkpoint /\ ix_checkpoint'.kind = "checkpoint")
        => checkpointComplete(ix_checkpoint', ix_completed') ]_vars

\* The same, for the runs in which no fetch, embed or upsert call has failed.
CheckpointCompleteUnlessFailed ==
    [][ (ix_checkpoint' # ix_checkpoint /\ ix_checkpoint'.kind = "checkpoint"
         /\ ~ix_failed')
        => checkpointComplete(ix_checkpoint', ix_completed') ]_vars

\* C11: Checkpoint lifecycle.  When indexAll has returned, no checkpoint file
\* exists, whether the run was fresh or resumed and whether or not sessions
\* failed; while a run is in progress the checkpoint file changes only at the
\* end of a batch, where it is overwritten, and at the return.
C11_CheckpointLifecycle ==
    /\ [](ix_pc = "returned" => ix_checkpoint = NoFile)
    /\ [][ ix_checkpoint' # ix_checkpoint
           => \/ atBatchEnd
              \/ ix_pc = "batch" /\ ix_pc' = "returned" ]_vars

\* a run resumed after the first of two sessions has returned with errors
C11_Witness ==
    /\ ix_pc = "returned"
    /\ ix_kills > 0
    /\ ~ix_run.freshStart
    /\ Len(ix_sessions) = 2
    /\ ix_hist.attempted = {"c2"}
    /\ ix_run.result.errors > 0
    /\ ix_checkpoint = NoFile

\* C12: Fatal errors.  A run whose checkpoint write has failed after a batch
\* has been aborted with a failure (indexAll threw, as it does when the
\* session list cannot be read): it is not processing a further batch and it
\* has not returned a result.
C12_FatalErrors ==
    ix_hist.saveFailed => ix_pc = "threw"

\* the documents of the session being upserted that the sub-batches of this
\* attempt have written so far
writtenInAttempt == {ix_run.docs[n].id : n \in 1..ix_run.k}

\* the step ends the upsert of a session with a failure
upsertFails ==
    /\ ix_pc = "upsert"
    /\ ix_pc' = "batch"
    /\ ix_run'.result.errors > ix_run.result.errors

\* C13: Per-conversation atomicity.  When the upsert of a session's chunks
\* fails, none of the session's chunks has been written to the vector index
\* by that attempt: no proper subset of them is left written, also when the
\* chunks are upserted in several sub-batches.
C13_Atomicity ==
    [][ upsertFails
        => /\ writtenInAttempt \subseteq docIds(ix_index')
           /\ writtenInAttempt = {} ]_vars

running == ix_pc \in {"batch", "embed", "upsert"}

\* the sessions from the start index of the run on
sessionsFromStart ==
    {ix_sessions[k].id : k \in (ix_run.startIndex + 1)..Len(ix_sessions)}

C15_FailuresCounted ==
    (ix_pc = "returned" /\ (ix_hist.embedFailed # {} \/ ix_hist.upsertFailed))
        => ix_run.result.errors > 0

\* the 1-based positions of the session id in the list findAll returns
positionsOf(id) == {k \in 1..Len(ix_sessions) : ix_sessions[k].id = id}

\* the step is the start of an indexAll run
indexAllStarts == ix_pc = "idle" /\ ix_pc' = "batch"

\* the step attempts a session
attempts == ix_hist'.attempted # ix_hist.attempted /\ ix_pc = "batch"

\* C25: Resume position.  A run started with freshStart = false on a
\* checkpoint whose session id is in the list begins with the session right
\* after the checkpointed one and attempts no session at or before it; a run
\* started with freshStart = true begins with the first session of the list.
C25_ResumePosition ==
    /\ [][ indexAllStarts
           => /\ ix_run'.i = ix_run'.startIndex
              /\ ix_run'.freshStart => ix_run'.startIndex = 0
              /\ (~ix_run'.freshStart /\ ix_checkpoint.kind = "checkpoint")
                     => \A k \in positionsOf(ix_checkpoint.lastProcessedSessionId) :
                            ix_run'.startIndex = k ]_vars
    /\ [][ attempts
           => \A id \in ix_hist'.attempted \ ix_hist.attempted :
                  \A k \in positionsOf(id) :
                      /\ k > ix_run.startIndex
                      /\ ix_hist.attempted = {} => k = ix_run.startIndex + 1 ]_vars

\* a run resumed after the checkpoint of c1 has attempted c2 and nothing else
C25_Witness ==
    /\ ix_pc = "batch"
    /\ ix_kills = 1
    /\ ~ix_run.freshStart
    /\ ix_run.startIndex = 1
    /\ Len(ix_sessions) = 2
    /\ ix_hist.attempted = {"c2"}
    /\ ix_run.result.processedSessions = 2
    /\ ix_checkpoint.kind = "checkpoint"
    /\ ix_checkpoint.lastProcessedSessionId = "c1"

\* how many chunks the session at position k of the list has
chunkCount(k) == Len(processSession(ix_sessions[k], ix_sessions[k].messages, 0))

RECURSIVE chunkSum(_)
chunkSum(n) == IF n = 0 THEN 0 ELSE chunkSum(n - 1) + chunkCount(n)

\* what one uninterrupted pass over the list without failures reports
wholePass ==
    [processedSessions |->
         Cardinality({k \in 1..Len(ix_sessions) : chunkCount(k) > 0}),
     skippedSessions |->
         Cardinality({k \in 1..Len(ix_sessions) : chunkCount(k) = 0}),
     totalChunks |-> chunkSum(Len(ix_sessions))]

\* C26: Seeded counters.  With no failure, the summary a run returns that was
\* killed and resumed from its checkpoint has the processedSessions,
\* skippedSessions and totalChunks of one uninterrupted pass over the same
\* sessions.
C26_SeededCounters ==
    resumedRunReturned =>
        /\ ix_run.result.processedSessions = wholePass.processedSessions
        /\ ix_run.result.skippedSessions = wholePass.skippedSessions
        /\ ix_run.result.totalChunks = wholePass.totalChunks

\* of the three counters, the one that is seeded
SeededProcessedSessions ==
    resumedRunReturned =>
        ix_run.result.processedSessions = wholePass.processedSessions

\* the step interrupts a run of indexAll
interrupted == ix_pc \in {"batch", "embed", "upsert"} /\ ix_pc' = "idle"

\* the number of sessions at or before the one the checkpoint file names:
\* none when there is no file, when it does not parse or names no session of
\* the list
persistedPosition(checkpoint) ==
    IF checkpoint.kind = "checkpoint"
       /\ positionsOf(checkpoint.lastProcessedSessionId) # {}
    THEN CHOOSE k \in positionsOf(checkpoint.lastProcessedSessionId) : TRUE
    ELSE 0

\* the positions after the persisted checkpoint of sessions whose chunks
\* have been upserted in full
upsertedAfter(checkpoint) ==
    {k \in (persistedPosition(checkpoint) + 1)..Len(ix_sessions) :
        ix_sessions[k].id \in ix_completed /\ hasChunks(ix_sessions[k].id)}

\* C33: Bounded redo.  A run restarted after an interruption (freshStart =
\* false) begins right after the session of the checkpoint that was persisted
\* and attempts no session at or before it; and when a run is interrupted, at
\* most batchSize sessions that were upserted lie after the persisted
\* checkpoint, so the restarted run upserts at most batchSize of them again.
C33_BoundedRedo ==
    /\ [][ (indexAllStarts /\ ix_kills > 0 /\ ~ix_run'.freshStart)
             => ix_run'.startIndex = persistedPosition(ix_checkpoint) ]_vars
    /\ [][ (attempts /\ ix_kills > 0 /\ ~ix_run.freshStart)
             => \A id \in ix_hist'.attempted \ ix_hist.attempted :
                    \A k \in positionsOf(id) :
                        k > persistedPosition(ix_checkpoint) ]_vars
    /\ [][ interrupted
             => Cardinality(upsertedAfter(ix_checkpoint')) <= ix_run.batchSize ]_vars

\* The same bound for the interruptions of runs whose checkpoint writes all
\* succeeded, the file being whole after the interruption.
BoundedRedoWhenSaved ==
    [][ (interrupted /\ ~ix_hist.saveFailed /\ ix_checkpoint' # Corrupt)
           => Cardinality(upsertedAfter(ix_checkpoint')) <= ix_run.batchSize ]_vars

\* the step is a collection.upsert call of upsertChunks that succeeds
subBatchUpserted ==
    /\ ix_pc = "upsert"
    /\ ix_pc' \in {"upsert", "batch"}
    /\ ix_run'.result.errors = ix_run.result.errors

\* the entry of the collection that upsertChunks makes of the chunk at n
entryAt(n) ==
    [id |-> ix_run.docs[n].id, embedding |-> ix_run.embeddings[n],
     document |-> ix_run.docs[n].content, metadata |-> ix_run.docs[n].metadata]

\* where the sub-batch that starts after k ends
subBatchEnd == IF ix_pc' = "upsert" THEN ix_run'.k ELSE Len(ix_run.docs)

\* C30: Sub-batched upsert.  A call of upsertChunks that does not fail submits
\* every chunk once, in order: the first sub-batch starts at the first chunk,
\* each sub-batch holds the next UpsertBatchSize chunks (the last one what is
\* left, at least one), and the next sub-batch starts where it ended.  Each id
\* is written with the embedding, the text and the metadata of its own
\* position.  An id already in the collection is overwritten: the collection
\* never holds two entries of one id, and the entries of other ids stay.
C30_SubBatchedUpsert ==
    /\ [][ ix_pc = "embed" /\ ix_pc' = "upsert"
             => /\ ix_run'.k = 0
                /\ ix_run'.docs = ix_run.docs
                /\ Len(ix_run'.embeddings) = Len(ix_run.docs) ]_vars
    /\ [][ subBatchUpserted
             => /\ subBatchEnd > ix_run.k
                /\ subBatchEnd - ix_run.k <= UpsertBatchSize
                /\ subBatchEnd < Len(ix_run.docs)
                       => subBatchEnd - ix_run.k = UpsertBatchSize
                /\ ix_pc' = "upsert"
                       => /\ subBatchEnd < Len(ix_run.docs)
                          /\ ix_run'.docs = ix_run.docs
                          /\ ix_run'.embeddings = ix_run.embeddings
                /\ ix_pc' = "batch"
                       => ix_run'.result.totalChunks
                             = ix_run.result.totalChunks + Len(ix_run.docs)
                /\ \A n \in (ix_run.k + 1)..subBatchEnd : entryAt(n) \in ix_index'
                /\ \A d \in ix_index' :
                       \/ d \in ix_index
                       \/ \E n \in (ix_run.k + 1)..subBatchEnd : d = entryAt(n)
                /\ \A d \in ix_index :
                       (\A n \in (ix_run.k + 1)..subBatchEnd : d.id # ix_run.docs[n].id)
                           => d \in ix_index'
                /\ \A d, e \in ix_index' : d.id = e.id => d = e ]_vars

\* the second sub-batch of a session of three chunks is about to be written
\* over the entry that an earlier run made of the third chunk; the first
\* sub-batch has replaced the entries of the first two
C30_Witness ==
    /\ ix_pc = "upsert"
    /\ Len(ix_run.docs) = 3
    /\ ix_run.k = UpsertBatchSize
    /\ entryAt(1) \in ix_index
    /\ entryAt(2) \in ix_index
    /\ \E d \in ix_index : d.id = ix_run.docs[3].id /\ d # entryAt(3)
    /\ Cardinality({d \in ix_index : d.id = ix_run.docs[1].id}) = 1

(***************************************************************************)
(* JsonlParser.parseFile: one transcript file, a sequence of lines          *)
(***************************************************************************)
MaxLines == 2
MaxTimestamp == 2

\* RawJsonlMessage.timestamp when the record carries none
NoTimestamp == 0

\* timestamps are ISO-8601 strings of one format, which compare as strings
\* in the order of the instants: the model keeps the instants
Timestamps == 1..MaxTimestamp

ParsePath == "a.jsonl"
SummaryTitle == "a summary"
RecordCwd == "/home/u/p"

\* the text of a content record: none, or a few words
RecordTexts == {"", "some words"}

\* one line of the file: a JSON record of the given type, or a line that is
\* not JSON (type "malformed"), or a line of white space (type "blank")
Line(type, isMeta, sessionId, cwd, timestamp, uuid, content, summary) ==
    [type |-> type, isMeta |-> isMeta, sessionId |-> sessionId, cwd |-> cwd,
     timestamp |-> timestamp, uuid |-> uuid, content |-> content,
     summary |-> summary]

MalformedLine == Line("malformed", FALSE, Null, Null, NoTimestamp, Null, "", Null)
BlankLine == Line("blank", FALSE, Null, Null, NoTimestamp, Null, "", Null)

SummaryLines ==
    { Line("summary", FALSE, sid, Null, ts, Null, "", SummaryTitle) :
      sid \in SessionIds \cup {Null}, ts \in Timestamps \cup {NoTimestamp} }

SystemLines ==
    { Line("system", FALSE, sid, cwd, ts, Null, "", Null) :
      sid \in SessionIds \cup {Null}, cwd \in {RecordCwd, Null},
      ts \in Timestamps \cup {NoTimestamp} }

\* records of another type, which are neither skipped nor parsed as messages
SnapshotLines ==
    { Line("file-history-snapshot", FALSE, sid, cwd, ts, Null, "", Null) :
      sid \in SessionIds \cup {Null}, cwd \in {RecordCwd, Null},
      ts \in Timestamps \cup {NoTimestamp} }

\* user and assistant records; a user record can be flagged isMeta
ContentLines ==
    { Line(o[1], o[2], sid, cwd, ts, uuid, content, Null) :
      o \in {<<"user", FALSE>>, <<"user", TRUE>>, <<"assistant", FALSE>>},
      sid \in SessionIds \cup {Null}, cwd \in {RecordCwd, Null},
      ts \in Timestamps \cup {NoTimestamp}, uuid \in {"m1", Null},
      content \in RecordTexts }

Lines == {MalformedLine, BlankLine} \cup SummaryLines \cup SystemLines
             \cup SnapshotLines \cup ContentLines

\* what parseFile and parseMessage return when they return null
Absent == [absent |-> TRUE]

\* parseMessage(raw, sessionId): the ParsedMessage, or Absent. The record's
\* message.role is that of its type; a text of white space only is empty.
parseMessage(raw, sessionId) ==
    IF raw.uuid = Null \/ raw.timestamp = NoTimestamp THEN Absent
    ELSE IF raw.content = "" THEN Absent
    ELSE [uuid |-> raw.uuid,
          session_id |-> sessionId,
          role |-> raw.type,
          content |-> raw.content,
          timestamp |-> raw.timestamp]

\* extractProjectPath returns the cwd on every path
extractProjectPath(cwd) == cwd

\* generateTitle(content): white space collapsed, cut at 80 characters; the
\* texts of the model are short and have single spaces
generateTitle(content) == IF content = "" THEN Null ELSE content

\* the locals of parseFile before the loop
ParseStart ==
    [messages |-> <<>>, sessionId |-> Null, title |-> Null, cwd |-> Null,
     projectPath |-> Null, startedAt |-> NoTimestamp, endedAt |-> NoTimestamp]

\* one iteration of the loop of parseFile: the locals after the line
parseLine(st, line) ==
    IF line.type = "blank" THEN st
    ELSE IF line.type = "malformed" THEN st
    ELSE IF line.type = "summary" THEN [st EXCEPT !.title = line.summary]
    ELSE IF line.type = "system" \/ line.isMeta THEN st
    ELSE LET sessionId == IF st.sessionId = Null /\ line.sessionId # Null
                          THEN line.sessionId ELSE st.sessionId
             newCwd == st.cwd = Null /\ line.cwd # Null
             startedAt ==
                 IF line.timestamp # NoTimestamp
                    /\ (st.startedAt = NoTimestamp \/ line.timestamp < st.startedAt)
                 THEN line.timestamp ELSE st.startedAt
             endedAt ==
                 IF line.timestamp # NoTimestamp
                    /\ (st.endedAt = NoTimestamp \/ line.timestamp > st.endedAt)
                 THEN line.timestamp ELSE st.endedAt
             message == parseMessage(line, sessionId)
         IN  [messages |-> IF line.type \in {"user", "assistant"} /\ message # Absent
                           THEN Append(st.messages, message) ELSE st.messages,
              sessionId |-> sessionId,
              title |-> st.title,
              cwd |-> IF newCwd THEN line.cwd ELSE st.cwd,
              projectPath |-> IF newCwd THEN extractProjectPath(line.cwd)
                              ELSE st.projectPath,
              startedAt |-> startedAt,
              endedAt |-> endedAt]

\* the loop of parseFile from line k on
RECURSIVE parseLines(_, _, _)
parseLines(st, lines, k) ==
    IF k > Len(lines) THEN st
    ELSE parseLines(parseLine(st, lines[k]), lines, k + 1)

\* the first message of role user, messages.find(m => m.role === 'user')
firstUserMsg(msgs) ==
    IF \E k \in 1..Len(msgs) : msgs[k].role = "user"
    THEN msgs[CHOOSE k \in 1..Len(msgs) :
                  /\ msgs[k].role = "user"
                  /\ \A l \in 1..(k - 1) : msgs[l].role # "user"]
    ELSE Absent

\* parseFile(filePath) on a file that was read as lines
parseFile(filePath, lines) ==
    IF Len(lines) = 0 THEN Absent
    ELSE LET st == parseLines(ParseStart, lines, 1)
         IN  IF st.sessionId = Null \/ Len(st.messages) = 0 THEN Absent
             ELSE [id |-> st.sessionId,
                   file_path |-> filePath,
                   project_path |-> st.projectPath,
                   cwd |-> st.cwd,
                   title |-> IF st.title = Null /\ firstUserMsg(st.messages) # Absent
                             THEN generateTitle(firstUserMsg(st.messages).content)
                             ELSE st.title,
                   started_at |-> st.startedAt,
                   ended_at |-> st.endedAt,
                   messages |-> st.messages]

NotCalled == [state |-> "none"]

ParseIdle ==
    /\ p_lines = <<>>
    /\ p_parse = NotCalled

\* the file gets one more line before it is parsed
WriteLine ==
    /\ p_parse = NotCalled
    /\ Len(p_lines) < MaxLines
    /\ \E line \in Lines : p_lines' = Append(p_lines, line)
    /\ UNCHANGED p_parse
    /\ UNCHANGED <<chunkVars, embedVars, storeVars, indexVars, textVars, importAllVars,
                 topicVars, formatVars, migrateVars>>

\* parseFile(filePath) returns
ParseFile ==
    /\ p_parse = NotCalled
    /\ p_parse' = [state |-> "returned", readError |-> FALSE,
                   result |-> parseFile(ParsePath, p_lines)]
    /\ UNCHANGED p_lines
    /\ UNCHANGED <<chunkVars, embedVars, storeVars, indexVars, textVars, importAllVars,
                 topicVars, formatVars, migrateVars>>

\* readLines throws (the file cannot be opened or read): the outer catch
\* logs the error and parseFile returns null
ParseFileReadError ==
    /\ p_parse = NotCalled
    /\ p_parse' = [state |-> "returned", readError |-> TRUE, result |-> Absent]
    /\ UNCHANGED p_lines
    /\ UNCHANGED <<chunkVars, embedVars, storeVars, indexVars, textVars, importAllVars,
                 topicVars, formatVars, migrateVars>>

ParseNext ==
    \/ WriteLine
    \/ ParseFile
    \/ ParseFileReadError

(***************************************************************************)
(* Properties of parseFile                                                  *)
(***************************************************************************)
\* parseFile has returned for a file that could be read
parsed == p_parse.state = "returned" /\ ~p_parse.readError

\* line k is a JSON record
isRecord(k) == p_lines[k].type \notin {"malformed", "blank"}

carriesIdentity(k) == isRecord(k) /\ p_lines[k].sessionId # Null

\* line k is a user or assistant record, not a meta record, with the uuid and
\* the timestamp a message needs and a text that is not empty
retained(k) ==
    /\ p_lines[k].type \in {"user", "assistant"}
    /\ ~p_lines[k].isMeta
    /\ parseMessage(p_lines[k], Null) # Absent

\* the lines that are JSON records, in order
RECURSIVE recordsOnly(_)
recordsOnly(lines) ==
    IF lines = <<>> THEN <<>>
    ELSE IF Head(lines).type \in {"malformed", "blank"}
    THEN recordsOnly(Tail(lines))
    ELSE <<Head(lines)>> \o recordsOnly(Tail(lines))

\* C19: parseFile returns absent exactly when no record of the file carries a
\* session id or no user/assistant record is retained; otherwise the id of
\* the session it returns is the session id of the first record that carries
\* one; and the result is what parsing the file without its malformed lines
\* gives.
C19_AbsentAndIdentity ==
    parsed =>
        /\ p_parse.result = Absent
               <=> \/ ~\E k \in 1..Len(p_lines) : carriesIdentity(k)
                   \/ ~\E k \in 1..Len(p_lines) : retained(k)
        /\ p_parse.result # Absent
               => \E k \in 1..Len(p_lines) :
                      /\ carriesIdentity(k)
                      /\ \A l \in 1..(k - 1) : ~carriesIdentity(l)
                      /\ p_parse.result.id = p_lines[k].sessionId
        /\ p_parse.result = parseFile(ParsePath, recordsOnly(p_lines))

\* C37: Every message of the ParsedSession that parseFile returns has the
\* session's id as its session_id, also when user or assistant records come
\* before the first record that carries a session id.
C37_MessagesCarrySessionId ==
    (parsed /\ p_parse.result # Absent)
        => \A k \in 1..Len(p_parse.result.messages) :
               p_parse.result.messages[k].session_id = p_parse.result.id

\* What holds: a message has the session's id or none, and it has the id when
\* every retained record of the file comes at or after the first record that
\* carries a session id.
MessagesCarrySessionIdOrNone ==
    (parsed /\ p_parse.result # Absent)
        => /\ \A k \in 1..Len(p_parse.result.messages) :
                  p_parse.result.messages[k].session_id
                      \in {p_parse.result.id, Null}
           /\ (\A k \in 1..Len(p_lines) :
                   retained(k) => \E l \in 1..k : carriesIdentity(l)
                                                    /\ ~p_lines[l].isMeta
                                                    /\ p_lines[l].type
                                                           \notin {"summary", "system"})
                  => \A k \in 1..Len(p_parse.result.messages) :
                         p_parse.result.messages[k].session_id = p_parse.result.id

\* the timestamps of all records of the file that carry one
allTimestamps ==
    {p_lines[k].timestamp : k \in {l \in 1..Len(p_lines) :
                                      /\ isRecord(l)
                                      /\ p_lines[l].timestamp # NoTimestamp}}

\* C20: when parseFile returns a session, its started_at is the least and its
\* ended_at the greatest timestamp over all records of the file that carry
\* one: summary, system and meta records and content records that are not
\* retained included.
C20_StartEndOverAllRecords ==
    (parsed /\ p_parse.result # Absent) =>
        /\ p_parse.result.started_at \in allTimestamps
        /\ p_parse.result.ended_at \in allTimestamps
        /\ \A t \in allTimestamps :
               /\ p_parse.result.started_at <= t
               /\ t <= p_parse.result.ended_at

(***************************************************************************)
(* ImportService.importAll                                                  *)
(***************************************************************************)
MaxFiles == 2

\* a file of the source directories: its path and what parseFile gives for it
SourceFiles ==
    {[file |-> session.file_path, parsed |-> session] : session \in ParsedFiles}
        \cup {[file |-> "c.jsonl", parsed |-> Absent]}

\* the ImportResult at the start; duration is wall-clock time and left out
ZeroImportResult ==
    [totalFiles |-> 0, imported |-> 0, skipped |-> 0, failed |-> 0,
     totalMessages |-> 0, errors |-> <<>>]

\* (mutant) an error of importFile ends the loop
afterCatchAbort(i, n) == n

\* the loop index after the catch block: the loop goes on with the next file
afterCatch(i, n) == i + 1

\* (mutant) a file that added no message is counted as imported
tallyAsImported(result, imported) ==
    [result EXCEPT !.imported = @ + 1, !.totalMessages = @ + imported]

\* lines 78-83, for a count that importFile returned: 0 is a skipped file
tally(result, imported) ==
    IF imported = 0
    THEN [result EXCEPT !.skipped = @ + 1]
    ELSE [result EXCEPT !.imported = @ + 1, !.totalMessages = @ + imported]

ImportAllIdle ==
    /\ ia_files = <<>>
    /\ ia_skipExisting = TRUE
    /\ ia_pc = "idle"
    /\ ia_i = 0
    /\ ia_result = ZeroImportResult
    /\ ia_log = <<>>

\* importAll(options) up to the loop: the files are collected
ImportAll ==
    /\ ia_pc = "idle"
    /\ \E files \in UNION {[1..n -> SourceFiles] : n \in 0..MaxFiles},
          skipExisting \in BOOLEAN :
           /\ ia_files' = files
           /\ ia_skipExisting' = skipExisting
           /\ ia_result' = [ZeroImportResult EXCEPT !.totalFiles = Len(files)]
    /\ ia_pc' = "running"
    /\ ia_i' = 0
    /\ ia_log' = <<>>
    /\ UNCHANGED storeVars
    /\ UNCHANGED <<chunkVars, embedVars, indexVars, parseVars, textVars,
                 topicVars, formatVars, migrateVars>>

\* a stub is registered before the import or while importAll awaits
ImportAllCreateStub ==
    /\ ia_pc # "returned"
    /\ \E id \in StubIds :
           /\ ~sessionExists(db_sessions, id)
           /\ db_sessions' = createStub(db_sessions, id, 0)
    /\ UNCHANGED <<db_messages, db_session_tags, db_projects, last>>
    /\ UNCHANGED importAllVars
    /\ UNCHANGED <<chunkVars, embedVars, indexVars, parseVars, textVars,
                 topicVars, formatVars, migrateVars>>

\* the paths getOrCreate is called with from outside the import
ProjectPaths == {"/home/u/p", "/home/u/q"}

\* ProjectRepository.getOrCreate(path), called by another user of the
\* repository; last keeps what the call returned
GetOrCreate ==
    /\ \E path \in ProjectPaths :
           LET r == getOrCreate(db_projects, path)
           IN  /\ db_projects' = r.projects
               /\ last' = [op |-> "getOrCreate", path |-> path, id |-> r.id]
    /\ UNCHANGED <<db_sessions, db_messages, db_session_tags>>
    /\ UNCHANGED importAllVars
    /\ UNCHANGED <<chunkVars, embedVars, indexVars, parseVars, textVars,
                 topicVars, formatVars, migrateVars>>

\* one iteration of the loop, for a file parseFile returns null for:
\* importFile returns null
ImportAllFileAbsent ==
    /\ ia_pc = "running"
    /\ ia_i < Len(ia_files)
    /\ ia_files[ia_i + 1].parsed = Absent
    /\ ia_result' = [ia_result EXCEPT !.skipped = @ + 1]
    /\ ia_log' = Append(ia_log, [file |-> ia_files[ia_i + 1].file,
                                 threw |-> FALSE, ret |-> Null, error |-> Null])
    /\ ia_i' = ia_i + 1
    /\ UNCHANGED <<ia_files, ia_skipExisting, ia_pc>>
    /\ UNCHANGED storeVars
    /\ UNCHANGED <<chunkVars, embedVars, indexVars, parseVars, textVars,
                 topicVars, formatVars, migrateVars>>

\* one iteration of the loop, for a file that parses: importFile returns a
\* count, or throws and the catch block records the error
ImportAllFile ==
    /\ ia_pc = "running"
    /\ ia_i < Len(ia_files)
    /\ ia_files[ia_i + 1].parsed # Absent
    /\ LET file == ia_files[ia_i + 1].file
           r == importFile(db_sessions, db_messages, db_projects,
                           ia_files[ia_i + 1].parsed, ia_skipExisting)
       IN  /\ db_sessions' = r.sessions
           /\ db_messages' = r.messages
           /\ db_projects' = r.projects
           /\ ia_log' = Append(ia_log, [file |-> file, threw |-> r.threw,
                                        ret |-> r.ret, error |-> r.error])
           /\ IF r.threw
              THEN /\ ia_result' =
                          [ia_result EXCEPT
                              !.failed = @ + 1,
                              !.errors = Append(@, [file |-> file, error |-> r.error])]
                   /\ ia_i' = afterCatch(ia_i, Len(ia_files))
              ELSE /\ ia_result' = tally(ia_result, r.ret)
                   /\ ia_i' = ia_i + 1
    /\ UNCHANGED <<ia_files, ia_skipExisting, ia_pc>>
    /\ UNCHANGED <<db_session_tags, last>>
    /\ UNCHANGED <<chunkVars, embedVars, indexVars, parseVars, textVars,
                 topicVars, formatVars, migrateVars>>

\* the loop is over: importAll returns the result
ImportAllReturns ==
    /\ ia_pc = "running"
    /\ ia_i >= Len(ia_files)
    /\ ia_pc' = "returned"
    /\ UNCHANGED <<ia_files, ia_skipExisting, ia_i, ia_result, ia_log>>
    /\ UNCHANGED storeVars
    /\ UNCHANGED <<chunkVars, embedVars, indexVars, parseVars, textVars,
                 topicVars, formatVars, migrateVars>>

ImportAllNext ==
    \/ ImportAll
    \/ ImportAllCreateStub
    \/ GetOrCreate
    \/ ImportAllFileAbsent
    \/ ImportAllFile
    \/ ImportAllReturns

(***************************************************************************)
(* Properties of importAll                                                  *)
(***************************************************************************)
\* the files of the log for which importFile threw, in order
failedEntries(log) ==
    SelectSeq(log, LAMBDA e : e.threw)

errorOf(e) == [file |-> e.file, error |-> e.error]

\* the file at position k imports cleanly whatever the store holds: every
\* message carries the session id of the file
wellFormed(k) ==
    /\ ia_files[k].parsed # Absent
    /\ \A n \in 1..Len(ia_files[k].parsed.messages) :
           ia_files[k].parsed.messages[n].session_id = ia_files[k].parsed.id

\* no other file of the list is a file of the session of the file at k
soleFileOfSession(k) ==
    \A l \in 1..Len(ia_files) :
        (l # k /\ ia_files[l].parsed # Absent)
            => ia_files[l].parsed.id # ia_files[k].parsed.id

\* C23: File-level failure isolation.  When importFile throws for a file,
\* importAll counts the file as failed and appends its path and the error
\* message to errors, and goes on: when importAll has returned, importFile
\* has been called for every file of the list in order, a well-formed file
\* that comes after a failed one has not failed, and when it is the only
\* file of its session every message of it is in the store.
C23_FailureIsolation ==
    /\ [](ia_pc = "returned" =>
            /\ Len(ia_log) = Len(ia_files)
            /\ \A k \in 1..Len(ia_files) : ia_log[k].file = ia_files[k].file
            /\ ia_result.failed = Len(failedEntries(ia_log))
            /\ Len(ia_result.errors) = ia_result.failed
            /\ \A k \in 1..Len(ia_result.errors) :
                   ia_result.errors[k] = errorOf(failedEntries(ia_log)[k])
            /\ \A k \in 1..Len(ia_files) : \A l \in (k + 1)..Len(ia_files) :
                   (ia_log[k].threw /\ wellFormed(l))
                       => /\ ~ia_log[l].threw
                          /\ soleFileOfSession(l)
                                 => \A uuid \in fileUuids(ia_files[l].parsed) :
                                        uuidStored(db_messages, uuid))
    /\ [][ (ia_pc = "running" /\ Len(ia_log') > Len(ia_log)
                /\ ia_log'[Len(ia_log')].threw)
           => /\ ia_result'.failed = ia_result.failed + 1
              /\ ia_result'.errors =
                     Append(ia_result.errors, errorOf(ia_log'[Len(ia_log')]))
              /\ ia_result'.imported = ia_result.imported
              /\ ia_result'.skipped = ia_result.skipped
              /\ ia_pc' = "running" ]_vars

\* importAll has returned for two files: importFile threw for the first, and
\* the second was imported with its messages
C23_Witness ==
    /\ ia_pc = "returned"
    /\ Len(ia_files) = 2
    /\ ia_log[1].threw
    /\ ia_result.errors = <<[file |-> ia_files[1].file,
                             error |-> "NOT NULL constraint failed"]>>
    /\ ~ia_log[2].threw
    /\ ia_log[2].ret = 2
    /\ soleFileOfSession(2)
    /\ ia_result.failed = 1
    /\ ia_result.imported = 1
    /\ ia_result.totalMessages = 2

\* importFile returned a count above 0 for the file at position k
countedImported(k) ==
    /\ ia_files[k].parsed # Absent
    /\ ~ia_log[k].threw
    /\ ia_log[k].ret > 0

\* the sum of the counts importFile returned for the first n files that are
\* counted as imported
RECURSIVE insertedSum(_)
insertedSum(n) ==
    IF n = 0 THEN 0
    ELSE insertedSum(n - 1) + (IF countedImported(n) THEN ia_log[n].ret ELSE 0)

\* C36: Import accounting.  When importAll has returned, every file of the
\* list is counted once, as imported, skipped or failed; errors has one entry
\* for each failed file; imported counts the files for which importFile
\* returned a count above 0 and totalMessages is the sum of these counts.
C36_ImportAccounting ==
    ia_pc = "returned" =>
        /\ ia_result.totalFiles = Len(ia_files)
        /\ ia_result.imported + ia_result.skipped + ia_result.failed
               = ia_result.totalFiles
        /\ Len(ia_result.errors) = ia_result.failed
        /\ ia_result.failed
               = Cardinality({k \in 1..Len(ia_files) : ia_log[k].threw})
        /\ ia_result.imported
               = Cardinality({k \in 1..Len(ia_files) : countedImported(k)})
        /\ ia_result.totalMessages = insertedSum(Len(ia_files))

\* importAll has returned for a file that was imported with two messages and
\* a second file of the same session, which was skipped
C36_Witness ==
    /\ ia_pc = "returned"
    /\ Len(ia_files) = 2
    /\ ia_skipExisting
    /\ countedImported(1)
    /\ ia_log[1].ret = 2
    /\ ia_files[2].parsed # Absent
    /\ ~ia_log[2].threw
    /\ ia_log[2].ret = 0
    /\ ia_result.imported = 1
    /\ ia_result.skipped = 1
    /\ ia_result.failed = 0
    /\ ia_result.totalMessages = 2

\* the step creates the session id or promotes its stub
createdOrPromoted(id) ==
    /\ ~sessionExists(db_sessions, id) \/ isStub(db_sessions, id)
    /\ sessionExists(db_sessions', id)
    /\ ~isStub(db_sessions', id)

\* C24: Project resolution is idempotent.  In every state the project table
\* has at most one row per path; a getOrCreate call returns the id of the row
\* of its path, and rows keep their ids, so every call with the same path
\* returns the same id; and a session that an import creates or promotes
\* with a working directory is linked to the project of that path.
C24_ProjectResolution ==
    /\ [](\A k, l \in 1..Len(db_projects) :
              db_projects[k] = db_projects[l] => k = l)
    /\ [](last.op = "getOrCreate"
              => /\ last.id \in 1..Len(db_projects)
                 /\ db_projects[last.id] = last.path)
    /\ [][ /\ Len(db_projects') >= Len(db_projects)
           /\ SubSeq(db_projects', 1, Len(db_projects)) = db_projects ]_vars
    /\ [][ \A id \in SessionIds :
               (createdOrPromoted(id) /\ db_sessions'[id].cwd # Null)
                   => /\ db_sessions'[id].project_id \in 1..Len(db_projects')
                      /\ db_projects'[db_sessions'[id].project_id]
                             = db_sessions'[id].cwd ]_vars

\* two projects are in the table, the one of the imported files second; a
\* session created by the import is linked to it, and a getOrCreate call
\* with its path after the import has returned its id
C24_Witness ==
    /\ Len(db_projects) = 2
    /\ ia_pc = "returned"
    /\ sessionExists(db_sessions, "s2")
    /\ db_sessions["s2"].project_id = 2
    /\ sessionExists(db_sessions, "s1")
    /\ db_sessions["s1"].project_id = 2
    /\ Len(ia_log) = 2
    /\ last.op = "getOrCreate"
    /\ last.path = db_sessions["s1"].cwd
    /\ last.id = 2

(***************************************************************************)
(* ChunkManager.isTopicSimilar over all topics                              *)
(***************************************************************************)
\* the keywords of the pattern of extractTopic
PatternKeywords ==
    {"react", "database", "git", "typescript", "python", "api", "server",
     "component", "function", "error", "bug", "feature", "implement", "create",
     "build", "fix", "test", "optimization", "performance", "security",
     "authentication", "deployment", "docker", "npm", "package", "library",
     "framework", "mcp", "claude", "hook", "skill", "command", "vector",
     "embedding", "search", "index", "sqlite", "chromadb"}

\* the topics: what extractTopic can return, and every topic of the table
Topics ==
    PatternKeywords \cup {"general"}
        \cup UNION {relatedTopics[g] : g \in 1..Len(relatedTopics)}

TopicIdle ==
    /\ s_topic1 = "general"
    /\ s_topic2 = "general"
    /\ s_pc = "input"
    /\ s_similar = FALSE

\* the arguments of a call
ChooseTopics ==
    /\ s_pc = "input"
    /\ \E topic1 \in Topics, topic2 \in Topics :
           /\ s_topic1' = topic1
           /\ s_topic2' = topic2
    /\ s_pc' = "chosen"
    /\ UNCHANGED s_similar
    /\ UNCHANGED <<chunkVars, embedVars, storeVars, indexVars, parseVars, textVars,
                   importAllVars, formatVars, migrateVars>>

\* isTopicSimilar(topic1, topic2) returns
IsTopicSimilar ==
    /\ s_pc = "chosen"
    /\ s_similar' = isTopicSimilar(s_topic1, s_topic2)
    /\ s_pc' = "done"
    /\ UNCHANGED <<s_topic1, s_topic2>>
    /\ UNCHANGED <<chunkVars, embedVars, storeVars, indexVars, parseVars, textVars,
                   importAllVars, formatVars, migrateVars>>

TopicNext == ChooseTopics \/ IsTopicSimilar

(***************************************************************************)
(* Properties of isTopicSimilar                                             *)
(***************************************************************************)
\* the related-groups of the table a topic is in
groupsOf(topic) == {g \in 1..Len(relatedTopics) : topic \in relatedTopics[g]}

\* C28: Topic relatedness is an equivalence relation.  isTopicSimilar holds
\* for a topic and itself and gives the same for (topic1, topic2) and
\* (topic2, topic1); a topic is in at most one related-group; two distinct
\* topics are related iff they share a related-group; relatedness is
\* transitive; a topic outside every group is related only to itself.
C28_RelatednessEquivalence ==
    s_pc = "done" =>
        /\ s_topic1 = s_topic2 => s_similar
        /\ s_similar = isTopicSimilar(s_topic2, s_topic1)
        /\ Cardinality(groupsOf(s_topic1)) <= 1
        /\ s_topic1 # s_topic2
               => (s_similar <=> groupsOf(s_topic1) \cap groupsOf(s_topic2) # {})
        /\ \A topic3 \in Topics :
               (s_similar /\ isTopicSimilar(s_topic2, topic3))
                   => isTopicSimilar(s_topic1, topic3)
        /\ (groupsOf(s_topic1) = {} /\ s_similar) => s_topic2 = s_topic1

\* isTopicSimilar has returned true for two distinct topics of one group
C28_Witness ==
    /\ s_pc = "done"
    /\ s_topic1 = "typescript"
    /\ s_topic2 = "react"
    /\ s_similar

(***************************************************************************)
(* ChunkManager.truncateIfNeeded: texts as sequences of characters          *)
(***************************************************************************)
\* the limit formatChunkContent passes for a message (10000 in the code) and
\* the longest text of the model
TruncateLimit == 15
MaxTextLen == 17
\* how many periods and newlines a text of the model has at most
MaxPeriods == 2
MaxNewlines == 1

Chars == {"a", ".", "\n"}

\* '...[truncated]', kept as one element
TruncationMarker == "...[truncated]"

occurrences(text, ch) == Cardinality({k \in 1..Len(text) : text[k] = ch})

\* text.lastIndexOf(ch): the greatest 0-based index of ch in text, or -1
lastIndexOf(text, ch) ==
    IF \E k \in 1..Len(text) : text[k] = ch
    THEN (CHOOSE k \in 1..Len(text) :
              /\ text[k] = ch
              /\ \A l \in (k + 1)..Len(text) : text[l] # ch) - 1
    ELSE -1

\* text.substring(0, end)
substring0(text, end) == SubSeq(text, 1, IF end <= Len(text) THEN end ELSE Len(text))

Max(a, b) == IF a >= b THEN a ELSE b

\* (mutant) a cut point at exactly 80% of the limit is taken too
beyondThresholdInclusive(cutPoint, maxChars) == cutPoint * 10 >= maxChars * 8

\* cutPoint > maxChars * 0.8
beyondThreshold(cutPoint, maxChars) == cutPoint * 10 > maxChars * 8

truncateIfNeeded(text, maxChars) ==
    IF Len(text) <= maxChars THEN text
    ELSE LET truncated == substring0(text, maxChars)
             lastPeriod == lastIndexOf(truncated, ".")
             lastNewline == lastIndexOf(truncated, "\n")
             cutPoint == Max(lastPeriod, lastNewline)
         IN  IF beyondThreshold(cutPoint, maxChars)
             THEN Append(substring0(truncated, cutPoint + 1), TruncationMarker)
             ELSE Append(truncated, TruncationMarker)

TextIdle ==
    /\ t_text = <<>>
    /\ t_pc = "input"
    /\ t_result = <<>>

\* the text gets one more character
TypeChar ==
    /\ t_pc = "input"
    /\ Len(t_text) < MaxTextLen
    /\ \E ch \in Chars :
           /\ ch = "." => occurrences(t_text, ".") < MaxPeriods
           /\ ch = "\n" => occurrences(t_text, "\n") < MaxNewlines
           /\ t_text' = Append(t_text, ch)
    /\ UNCHANGED <<t_pc, t_result>>
    /\ UNCHANGED <<chunkVars, embedVars, storeVars, indexVars, parseVars, importAllVars,
                 topicVars, formatVars, migrateVars>>

\* truncateIfNeeded(text, 10000) returns
TruncateIfNeeded ==
    /\ t_pc = "input"
    /\ t_result' = truncateIfNeeded(t_text, TruncateLimit)
    /\ t_pc' = "done"
    /\ UNCHANGED t_text
    /\ UNCHANGED <<chunkVars, embedVars, storeVars, indexVars, parseVars, importAllVars,
                 topicVars, formatVars, migrateVars>>

TruncateNext == TypeChar \/ TruncateIfNeeded

(***************************************************************************)
(* Properties of truncateIfNeeded                                           *)
(***************************************************************************)
\* the 0-based indexes of the periods and newlines in the first
\* TruncateLimit characters of the text
boundaries ==
    {k - 1 : k \in {l \in 1..Len(t_text) :
                        l <= TruncateLimit /\ t_text[l] \in {".", "\n"}}}

lastBoundary == CHOOSE b \in boundaries : \A c \in boundaries : c <= b

\* C22: Truncation boundary.  A text of at most L characters is returned
\* unchanged.  For a longer text, when the last period or newline in the
\* first L characters lies beyond 80% of L, the result is the text up to and
\* including that character, plus the marker; otherwise it is exactly the
\* first L characters plus the marker.
C22_TruncationBoundary ==
    t_pc = "done" =>
        IF Len(t_text) <= TruncateLimit
        THEN t_result = t_text
        ELSE IF boundaries # {} /\ lastBoundary * 10 > TruncateLimit * 8
        THEN t_result = Append(SubSeq(t_text, 1, lastBoundary + 1), TruncationMarker)
        ELSE t_result = Append(SubSeq(t_text, 1, TruncateLimit), TruncationMarker)

\* a text longer than the limit with a period beyond 80% of the limit and
\* before the end of the window has been cut at that period, and there is an
\* earlier period too
C22_Witness ==
    /\ t_pc = "done"
    /\ Len(t_text) > TruncateLimit
    /\ t_text[TruncateLimit - 1] = "."
    /\ t_text[TruncateLimit] = "a"
    /\ t_text[2] = "."
    /\ Len(t_result) = TruncateLimit
    /\ t_result[Len(t_result)] = TruncationMarker

(***************************************************************************)
(* ChunkManager.formatChunkContent: the content as a sequence of characters *)
(***************************************************************************)
\* maxChunkChars of formatChunkContent (20000 in the code), scaled like
\* TruncateLimit: above it only when both texts are near their own limit
MaxChunkChars == 70

\* `Topic: `, `User: `, `Assistant: ` and the blank line between the parts
TopicLabel == <<"T", "o", "p", "i", "c", ":", " ">>
UserLabel == <<"U", "s", "e", "r", ":", " ">>
AssistantLabel == <<"A", "s", "s", "i", "s", "t", "a", "n", "t", ":", " ">>
BlankLine2 == <<"\n", "\n">>
Marker == <<".", ".", ".", "[", "t", "r", "u", "n", "c", "a", "t", "e", "d", "]">>

\* pair.userMessage or pair.assistantMessage is null
NoText == [present |-> FALSE, content |-> <<>>]

\* a text of n characters: letters, a period at position p (none when p is
\* 0), a newline at the end when nl
textOf(n, p, nl) ==
    [k \in 1..n |-> IF k = p THEN "." ELSE IF k = n /\ nl THEN "\n" ELSE "a"]

\* the message texts: every length up to MaxTextLen, a period nowhere or
\* around the threshold of truncateIfNeeded, with and without a last newline
FormatTexts ==
    {textOf(n, p, nl) : n \in 0..MaxTextLen,
                        p \in {0} \cup ((TruncateLimit - 3)..TruncateLimit),
                        nl \in BOOLEAN}

\* a message of the pair: absent, or present with its content
FormatMessages ==
    {NoText} \cup {[present |-> TRUE, content |-> t] : t \in FormatTexts}

FormatTopics == {<<"g", "i", "t">>, <<"g", "e", "n", "e", "r", "a", "l">>}

\* truncateIfNeeded, the marker it appends spelled out in characters
truncateChars(text, maxChars) ==
    LET result == truncateIfNeeded(text, maxChars)
    IN  IF result # <<>> /\ result[Len(result)] = TruncationMarker
        THEN SubSeq(result, 1, Len(result) - 1) \o Marker
        ELSE result

Whitespace == {" ", "\n"}

\* String.prototype.trim
RECURSIVE trim(_)
trim(text) ==
    IF text = <<>> THEN text
    ELSE IF Head(text) \in Whitespace THEN trim(Tail(text))
    ELSE IF text[Len(text)] \in Whitespace THEN trim(SubSeq(text, 1, Len(text) - 1))
    ELSE text

\* (mutant) the content is never cut
uncapped(content, maxChunkChars) == content

\* lines 306-309: the final safety check on the total chunk size
capped(content, maxChunkChars) ==
    IF Len(content) > maxChunkChars
    THEN substring0(content, maxChunkChars) \o Marker
    ELSE content

\* formatChunkContent(pair, topic), lines 285-312
formatChunkChars(pair, topic) ==
    LET header == TopicLabel \o topic \o BlankLine2
        user == IF pair.userMessage.present
                THEN UserLabel
                         \o truncateChars(pair.userMessage.content, TruncateLimit)
                         \o BlankLine2
                ELSE <<>>
        assistant == IF pair.assistantMessage.present
                     THEN AssistantLabel
                              \o truncateChars(pair.assistantMessage.content,
                                               TruncateLimit)
                     ELSE <<>>
    IN  trim(capped(header \o user \o assistant, MaxChunkChars))

FormatIdle ==
    /\ f_pair = [userMessage |-> NoText, assistantMessage |-> NoText]
    /\ f_topic = <<>>
    /\ f_pc = "input"
    /\ f_content = <<>>

\* the arguments of a call: a pair with either message absent or present
ChooseFormatInput ==
    /\ f_pc = "input"
    /\ f_pair' \in [userMessage : FormatMessages, assistantMessage : FormatMessages]
    /\ f_topic' \in FormatTopics
    /\ f_pc' = "chosen"
    /\ UNCHANGED f_content
    /\ UNCHANGED <<chunkVars, embedVars, storeVars, indexVars, parseVars, textVars,
                   importAllVars, topicVars, migrateVars>>

\* formatChunkContent(pair, topic) returns
FormatChunkContent ==
    /\ f_pc = "chosen"
    /\ f_content' = formatChunkChars(f_pair, f_topic)
    /\ f_pc' = "done"
    /\ UNCHANGED <<f_pair, f_topic>>
    /\ UNCHANGED <<chunkVars, embedVars, storeVars, indexVars, parseVars, textVars,
                   importAllVars, topicVars, migrateVars>>

FormatNext == ChooseFormatInput \/ FormatChunkContent

(***************************************************************************)
(* Properties of formatChunkContent                                         *)
(***************************************************************************)
\* the content before the final safety check
uncut ==
    TopicLabel \o f_topic \o BlankLine2
    \o (IF f_pair.userMessage.present
        THEN UserLabel \o truncateChars(f_pair.userMessage.content, TruncateLimit)
                 \o BlankLine2
        ELSE <<>>)
    \o (IF f_pair.assistantMessage.present
        THEN AssistantLabel
                 \o truncateChars(f_pair.assistantMessage.content, TruncateLimit)
        ELSE <<>>)

\* C32: Final hard cap.  Whatever the lengths of the user text, the assistant
\* text and the topic, the content formatChunkContent returns has at most
\* MaxChunkChars characters plus the truncation marker.
C32_FinalHardCap ==
    f_pc = "done" => Len(f_content) <= MaxChunkChars + Len(Marker)

\* two texts longer than their limit: the content before the final check was
\* longer than MaxChunkChars and was cut to MaxChunkChars and the marker
C32_Witness ==
    /\ f_pc = "done"
    /\ Len(f_pair.userMessage.content) > TruncateLimit
    /\ Len(f_pair.assistantMessage.content) > TruncateLimit
    /\ Len(uncut) > MaxChunkChars + Len(Marker)
    /\ Len(f_content) = MaxChunkChars + Len(Marker)

(***************************************************************************)
(* MigrationRunner: loadMigrations, applyMigration, migrate                 *)
(***************************************************************************)
MaxMigrateCalls == 2

\* the migration files there can be, <<version, name>>: two files carry
\* version 2
MigrationFiles == {<<1, "a">>, <<2, "a">>, <<2, "b">>, <<3, "a">>}

\* the file names in sort order
NameOrder(name) == IF name = "a" THEN 1 ELSE 2

\* loadMigrations: the files sorted by name, then by version
RECURSIVE loadMigrations(_)
loadMigrations(files) ==
    IF files = {} THEN <<>>
    ELSE LET first == CHOOSE f \in files :
                          \A g \in files :
                              \/ f[1] < g[1]
                              \/ f[1] = g[1] /\ NameOrder(f[2]) <= NameOrder(g[2])
         IN  <<[version |-> first[1], name |-> first[2]]>>
                 \o loadMigrations(files \ {first})

\* getCurrentVersion: MAX(version) of schema_migrations, 0 when it is empty
getCurrentVersion(table) ==
    IF table = <<>> THEN 0
    ELSE CHOOSE v \in {table[k] : k \in 1..Len(table)} :
             \A k \in 1..Len(table) : table[k] <= v

\* applyMigration: the SQL and the INSERT into schema_migrations in one
\* transaction; the SQL may fail, the INSERT fails when the version is a row
\* already; either failure rolls both back
applyMigration(table, effects, migration, sqlFails) ==
    IF sqlFails \/ \E k \in 1..Len(table) : table[k] = migration.version
    THEN [table |-> table, effects |-> effects, threw |-> TRUE]
    ELSE [table |-> Append(table, migration.version),
          effects |-> Append(effects, migration.version), threw |-> FALSE]

\* (mutant) the loop goes on with the next migration after an error
afterErrorContinue(k, n) == k + 1

\* line 181, break: the loop position after a migration failed
afterError(k, n) == n

NoMigrate == [list |-> <<>>, currentVersion |-> 0, k |-> 0,
              result |-> [applied |-> <<>>, skipped |-> 0, errors |-> <<>>]]

MigrateIdle ==
    /\ m_files = {}
    /\ m_table = <<>>
    /\ m_effects = <<>>
    /\ m_pc = "idle"
    /\ m_run = NoMigrate
    /\ m_calls = 0

\* a release adds a migration file
AddMigrationFile ==
    /\ m_pc = "idle"
    /\ \E f \in MigrationFiles \ m_files : m_files' = m_files \cup {f}
    /\ UNCHANGED <<m_table, m_effects, m_pc, m_run, m_calls>>
    /\ UNCHANGED <<chunkVars, embedVars, storeVars, indexVars, parseVars, textVars,
                   importAllVars, topicVars, formatVars>>

\* migrate(), lines 161-169
Migrate ==
    /\ m_pc = "idle"
    /\ m_calls < MaxMigrateCalls
    /\ m_calls' = m_calls + 1
    /\ m_run' = [NoMigrate EXCEPT !.list = loadMigrations(m_files),
                                  !.currentVersion = getCurrentVersion(m_table)]
    /\ m_pc' = "running"
    /\ UNCHANGED <<m_files, m_table, m_effects>>
    /\ UNCHANGED <<chunkVars, embedVars, storeVars, indexVars, parseVars, textVars,
                   importAllVars, topicVars, formatVars>>

\* lines 171-183, one turn of the loop
MigrateOne ==
    /\ m_pc = "running"
    /\ m_run.k < Len(m_run.list)
    /\ LET migration == m_run.list[m_run.k + 1]
       IN  IF migration.version <= m_run.currentVersion
           THEN /\ m_run' = [m_run EXCEPT !.result.skipped = @ + 1, !.k = @ + 1]
                /\ UNCHANGED <<m_table, m_effects>>
           ELSE \E sqlFails \in BOOLEAN :
                    LET r == applyMigration(m_table, m_effects, migration, sqlFails)
                    IN  /\ m_table' = r.table
                        /\ m_effects' = r.effects
                        /\ m_run' =
                               IF r.threw
                               THEN [m_run EXCEPT
                                        !.result.errors = Append(@, migration.version),
                                        !.k = afterError(m_run.k, Len(m_run.list))]
                               ELSE [m_run EXCEPT
                                        !.result.applied = Append(@, migration.version),
                                        !.k = @ + 1]
    /\ UNCHANGED <<m_files, m_pc, m_calls>>
    /\ UNCHANGED <<chunkVars, embedVars, storeVars, indexVars, parseVars, textVars,
                   importAllVars, topicVars, formatVars>>

\* line 185: migrate returns its result
MigrateReturns ==
    /\ m_pc = "running"
    /\ m_run.k >= Len(m_run.list)
    /\ m_pc' = "idle"
    /\ m_run' = NoMigrate
    /\ UNCHANGED <<m_files, m_table, m_effects, m_calls>>
    /\ UNCHANGED <<chunkVars, embedVars, storeVars, indexVars, parseVars, textVars,
                   importAllVars, topicVars, formatVars>>

MigrateNext == AddMigrationFile \/ Migrate \/ MigrateOne \/ MigrateReturns

(***************************************************************************)
(* Properties of migrate                                                    *)
(***************************************************************************)
\* C34: Migrations are applied in order and only once.  Over any sequence of
\* migrate calls the versions whose SQL was committed are in ascending order
\* without repetition, and they are the versions recorded in
\* schema_migrations; a migration that fails is not recorded and changes
\* nothing, and after it nothing more is applied in the call.
C34_MigrationsOnceInOrder ==
    /\ [](/\ \A i, j \in 1..Len(m_effects) :
                 i < j => m_effects[i] < m_effects[j]
          /\ m_table = m_effects)
    /\ [][ Len(m_run'.result.errors) > Len(m_run.result.errors)
             => /\ m_table' = m_table
                /\ m_effects' = m_effects ]_vars
    /\ [][ (m_pc = "running" /\ m_run.result.errors # <<>>)
             => /\ m_table' = m_table
                /\ m_effects' = m_effects
                /\ m_pc' = "idle" ]_vars

\* a second call of migrate, which applied version 2 after the first call had
\* applied version 1 and failed on version 2, fails on the second file of
\* version 2 and leaves version 3 alone
C34_Witness ==
    /\ m_pc = "running"
    /\ m_calls = 2
    /\ m_table = <<1, 2>>
    /\ m_run.currentVersion = 1
    /\ m_run.result.applied = <<2>>
    /\ m_run.result.errors = <<2>>
    /\ Len(m_run.list) = 4
    /\ m_run.k = 4

(***************************************************************************)
(* Specifications: one per component, the other components at rest         *)
(***************************************************************************)
ChunkInit == ChunkStart /\ EmbedIdle /\ StoreEmpty /\ IndexIdle /\ ParseIdle /\ TextIdle
    /\ ImportAllIdle /\ TopicIdle /\ FormatIdle /\ MigrateIdle

SpecChunk == ChunkInit /\ [][ChunkNext]_vars

EmbedInit == ChunkStart /\ EmbedIdle /\ StoreEmpty /\ IndexIdle /\ ParseIdle /\ TextIdle
    /\ ImportAllIdle /\ TopicIdle /\ FormatIdle /\ MigrateIdle

SpecEmbed == EmbedInit /\ [][EmbedNext]_vars

\* Every embed call returns or fails, and the awaits of embedBatch resume.
EmbedFairness ==
    /\ WF_vars(EmbedSettles)
    /\ WF_vars(EmbedBatchReturns)

SpecEmbedLive == EmbedInit /\ [][EmbedNext]_vars /\ EmbedFairness

ImportInit == ChunkStart /\ EmbedIdle /\ StoreEmpty /\ IndexIdle /\ ParseIdle /\ TextIdle
    /\ ImportAllIdle /\ TopicIdle /\ FormatIdle /\ MigrateIdle

SpecImport == ImportInit /\ [][ImportNext]_vars

IndexInit == ChunkStart /\ EmbedIdle /\ StoreEmpty /\ IndexStart /\ ParseIdle /\ TextIdle
    /\ ImportAllIdle /\ TopicIdle /\ FormatIdle /\ MigrateIdle

SpecIndex == IndexInit /\ [][IndexNext]_vars

ParseInit == ChunkStart /\ EmbedIdle /\ StoreEmpty /\ IndexIdle /\ ParseIdle /\ TextIdle
    /\ ImportAllIdle /\ TopicIdle /\ FormatIdle /\ MigrateIdle

SpecParse == ParseInit /\ [][ParseNext]_vars

TruncateInit ==
    ChunkStart /\ EmbedIdle /\ StoreEmpty /\ IndexIdle /\ ParseIdle /\ TextIdle
    /\ ImportAllIdle /\ TopicIdle /\ FormatIdle /\ MigrateIdle

ImportAllInit ==
    ChunkStart /\ EmbedIdle /\ StoreEmpty /\ IndexIdle /\ ParseIdle /\ TextIdle
    /\ ImportAllIdle /\ TopicIdle /\ FormatIdle /\ MigrateIdle

SpecImportAll == ImportAllInit /\ [][ImportAllNext]_vars

TopicInit ==
    ChunkStart /\ EmbedIdle /\ StoreEmpty /\ IndexIdle /\ ParseIdle /\ TextIdle
    /\ ImportAllIdle /\ TopicIdle /\ FormatIdle /\ MigrateIdle

SpecTopic == TopicInit /\ [][TopicNext]_vars

SpecTruncate == TruncateInit /\ [][TruncateNext]_vars

FormatInit ==
    ChunkStart /\ EmbedIdle /\ StoreEmpty /\ IndexIdle /\ ParseIdle /\ TextIdle
    /\ ImportAllIdle /\ TopicIdle /\ FormatIdle /\ MigrateIdle

SpecFormat == FormatInit /\ [][FormatNext]_vars

MigrateInit ==
    ChunkStart /\ EmbedIdle /\ StoreEmpty /\ IndexIdle /\ ParseIdle /\ TextIdle
    /\ ImportAllIdle /\ TopicIdle /\ FormatIdle /\ MigrateIdle

SpecMigrate == MigrateInit /\ [][MigrateNext]_vars

\* A run that is not killed goes on: its synchronous steps are taken, and
\* every embed and upsert call returns or fails.
IndexFairness ==
    /\ WF_vars(FetchSession)
    /\ WF_vars(EmbedBatchDone)
    /\ WF_vars(UpsertSubBatch)
    /\ WF_vars(SaveCheckpoint)
    /\ WF_vars(IndexAllReturns)

SpecIndexLive == IndexInit /\ [][IndexNext]_vars /\ IndexFairness

=============================================================================
